---- MODULE Spec2Model ----
(***************************************************************************)
(* EchoMeet: the signaling server (room registry, signal router, chat      *)
(* relay) and the client's peer connection manager.                        *)
(*                                                                         *)
(* Server state is the pair of module-level Maps of the server file        *)
(* (rooms, userSocketMap) plus the socket.io adapter rooms (the delivery   *)
(* groups) and the set of connected sockets.  JavaScript Maps iterate in   *)
(* insertion order, so a Map is modelled as a sequence of entries.         *)
(***************************************************************************)
EXTENDS Integers, Sequences, FiniteSets, Bags, TLC

\* ------------------------------------------------------------------------
\* The identifiers of the server model
\* ------------------------------------------------------------------------
Rooms == {"r1", "r2"}
Users == {"u1", "u2"}
Sockets == {"s1", "s2", "s3"}

\* A run has either one room, three sockets and both users in the room, or two
\* rooms and two sockets, where r1 takes both users and r2 takes u1 alone.
\* pairs are the (room, user) pairs that join-room and leave-room name.
Scopes == {[rooms |-> {"r1"}, sockets |-> {"s1", "s2", "s3"},
            pairs |-> {<<"r1", "u1">>, <<"r1", "u2">>}],
           [rooms |-> {"r1", "r2"}, sockets |-> {"s1", "s2"},
            pairs |-> {<<"r1", "u1">>, <<"r1", "u2">>, <<"r2", "u1">>}]}

\* The nickname a user's session carries into join-room.
NicknameOf == [u \in Users |-> IF u = "u1" THEN "A" ELSE "B"]

\* Opaque signaling payloads and the chat message the clients may send.
Signals == {[type |-> "offer", sdp |-> "X"], [candidate |-> "c1"]}
ChatBodies == {[id |-> "m1", senderId |-> "u1", senderNickname |-> "A",
                content |-> "hi", timestamp |-> 1]}

VARIABLES
    scope,          \* the rooms and sockets of this run
    rooms,          \* Map roomId -> Map userId -> {socketId, nickname}
    userSocketMap,  \* Map userId -> socketId
    groups,         \* socket.io adapter: room name -> sockets joined to it
    connected,      \* sockets whose 'connection' fired and 'disconnect' did not
    ev,             \* the event the server handled last
    sent,           \* the emits of that handler, in order
    pre,            \* rooms, userSocketMap and groups before that handler ran
    client,         \* one browser: the WebRTCService singleton, its
                    \* RTCPeerConnection objects, its pending awaits and timers
    pair            \* two browsers in one room and the events on their way
                    \* from the signalling server to each of them

srvVars == <<scope, rooms, userSocketMap, groups, connected, ev, sent, pre>>

vars == <<scope, rooms, userSocketMap, groups, connected, ev, sent, pre, client,
         pair>>

\* ------------------------------------------------------------------------
\* JavaScript Map operations on the sequence representation
\* ------------------------------------------------------------------------
EmptyMap == [u \in {} |-> "s1"]

\* Map.prototype.has / get on a room's participant Map
HasMember(members, u) == \E i \in 1..Len(members) : members[i].userId = u

GetMember(members, u) ==
    members[CHOOSE i \in 1..Len(members) : members[i].userId = u]

\* Map.prototype.delete: the other entries keep their order
MapDelete(members, u) == SelectSeq(members, LAMBDA e : e.userId # u)

\* Map.prototype.set: an existing key keeps its position, a new key goes last
MapSet(members, entry) ==
    IF HasMember(members, entry.userId)
    THEN [i \in 1..Len(members) |->
            IF members[i].userId = entry.userId THEN entry ELSE members[i]]
    ELSE Append(members, entry)

\* rooms.has(roomId) / rooms.get(roomId)
HasRoom(rs, r) == \E i \in 1..Len(rs) : rs[i].roomId = r

GetRoom(rs, r) == rs[CHOOSE i \in 1..Len(rs) : rs[i].roomId = r].members

\* mutation of the participant Map that rooms.get(roomId) returns
SetRoom(rs, r, members) ==
    [i \in 1..Len(rs) |->
        IF rs[i].roomId = r THEN [roomId |-> r, members |-> members] ELSE rs[i]]

\* rooms.set(roomId, new Map()) for an absent key
AddRoom(rs, r) == Append(rs, [roomId |-> r, members |-> <<>>])

\* rooms.delete(roomId)
DeleteRoom(rs, r) == SelectSeq(rs, LAMBDA e : e.roomId # r)

\* userSocketMap.set(userId, socket.id)
IndexSet(idx, u, s) == [x \in DOMAIN idx \cup {u} |-> IF x = u THEN s ELSE idx[x]]

\* [...userSocketMap.entries()].filter(([, sid]) => sid === socket.id)
\*     .forEach(([uid]) => userSocketMap.delete(uid))
IndexDropSocket(idx, s) == [x \in {y \in DOMAIN idx : idx[y] # s} |-> idx[x]]

\* One emit: the event name, the sockets it is delivered to, the payload.
Emit(event, to, data) == [event |-> event, to |-> to, data |-> data]

\* Array.from(rooms.get(roomId)).map(([userId, data]) => ({userId, socketId, nickname}))
Participants(members) ==
    [i \in 1..Len(members) |->
        [userId |-> members[i].userId, socketId |-> members[i].socketId,
         nickname |-> members[i].nickname]]

Core == [rooms |-> rooms, userSocketMap |-> userSocketMap, groups |-> groups]

\* ------------------------------------------------------------------------
\* join-room
\* ------------------------------------------------------------------------
IsRejoin(rs, r, u) == HasRoom(rs, r) /\ HasMember(GetRoom(rs, r), u)

JoinRooms(rs, s, r, u, n) ==
    LET rs1 == IF IsRejoin(rs, r, u) THEN SetRoom(rs, r, MapDelete(GetRoom(rs, r), u))
               ELSE rs
        rs2 == IF ~HasRoom(rs1, r) THEN AddRoom(rs1, r) ELSE rs1
    IN  SetRoom(rs2, r, MapSet(GetRoom(rs2, r),
                               [userId |-> u, socketId |-> s, nickname |-> n]))

JoinEmits(rs, gs, s, r, u, n) ==
    LET rs3 == JoinRooms(rs, s, r, u, n)
        g == gs[r] \cup {s}
        note == [userId |-> u, socketId |-> s, nickname |-> n]
    IN  << Emit("existing-participants", {s}, Participants(GetRoom(rs3, r))),
           IF IsRejoin(rs, r, u) THEN Emit("userRejoined", g \ {s}, note)
           ELSE Emit("userJoined", g \ {s}, note),
           Emit("participant-count", g, Len(GetRoom(rs3, r))) >>

JoinRoom(s, r, u, n) ==
    /\ UNCHANGED <<scope, client, pair>>
    /\ s \in connected
    /\ rooms' = JoinRooms(rooms, s, r, u, n)
    /\ groups' = [groups EXCEPT ![r] = @ \cup {s}]
    /\ userSocketMap' = IndexSet(userSocketMap, u, s)
    /\ sent' = JoinEmits(rooms, groups, s, r, u, n)
    /\ ev' = [op |-> "join-room", socket |-> s, roomId |-> r, userId |-> u,
              nickname |-> n]
    /\ pre' = Core
    /\ UNCHANGED connected

\* ------------------------------------------------------------------------
\* leave-room
\* ------------------------------------------------------------------------
\* leave-room without the removal of the emptied room
LeaveRoomsKeepEmpty(rs, r, u) ==
    IF HasRoom(rs, r) THEN SetRoom(rs, r, MapDelete(GetRoom(rs, r), u)) ELSE rs

LeaveRooms(rs, r, u) ==
    IF HasRoom(rs, r)
    THEN LET left == MapDelete(GetRoom(rs, r), u)
         IN  IF Len(left) = 0 THEN DeleteRoom(rs, r) ELSE SetRoom(rs, r, left)
    ELSE rs

LeaveIndex(idx, s) == IndexDropSocket(idx, s)

LeaveGroups(gs, s, r) == [gs EXCEPT ![r] = @ \ {s}]

LeaveEmits(rs, gs, s, r, u) ==
    LET rs1 == LeaveRooms(rs, r, u)
        count == IF HasRoom(rs, r) /\ HasRoom(rs1, r)
                 THEN << Emit("participant-count", gs[r], Len(GetRoom(rs1, r))) >>
                 ELSE << >>
    IN  count \o << Emit("userLeft", gs[r] \ {s}, [userId |-> u]) >>

LeaveRoom(s, r, u) ==
    /\ UNCHANGED <<scope, client, pair>>
    /\ s \in connected
    /\ rooms' = LeaveRooms(rooms, r, u)
    /\ userSocketMap' = LeaveIndex(userSocketMap, s)
    /\ groups' = LeaveGroups(groups, s, r)
    /\ sent' = LeaveEmits(rooms, groups, s, r, u)
    /\ ev' = [op |-> "leave-room", socket |-> s, roomId |-> r, userId |-> u]
    /\ pre' = Core
    /\ UNCHANGED connected

\* ------------------------------------------------------------------------
\* chat-message
\* ------------------------------------------------------------------------
\* the relay with io.to(roomId) in place of socket.to(roomId)
ChatEmitsToAll(gs, s, r, m) ==
    << Emit("receiveMessage", gs[r],
            [id |-> m.id, senderId |-> m.senderId,
             senderNickname |-> m.senderNickname, content |-> m.content,
             timestamp |-> m.timestamp]) >>

ChatEmits(gs, s, r, m) ==
    << Emit("receiveMessage", gs[r] \ {s},
            [id |-> m.id, senderId |-> m.senderId,
             senderNickname |-> m.senderNickname, content |-> m.content,
             timestamp |-> m.timestamp]) >>

ChatMessage(s, r, m) ==
    /\ UNCHANGED <<scope, client, pair>>
    /\ s \in connected
    /\ sent' = ChatEmits(groups, s, r, m)
    /\ ev' = [op |-> "chat-message", socket |-> s, roomId |-> r, body |-> m]
    /\ pre' = Core
    /\ UNCHANGED <<rooms, userSocketMap, groups, connected>>

\* ------------------------------------------------------------------------
\* signal
\* ------------------------------------------------------------------------
\* the loop over rooms.entries() that sets isValidUser (it only feeds a log line)
IsValidUser(rs, from) == \E i \in 1..Len(rs) : HasMember(rs[i].members, from)

\* the router dropping a signal whose sender is in no room
SignalEmitsValidOnly(idx, rs, conn, to, from, signal) ==
    IF to \in DOMAIN idx /\ IsValidUser(rs, from)
    THEN << Emit("signal", {idx[to]} \cap conn, [from |-> from, signal |-> signal]) >>
    ELSE << >>

\* io.to(targetSocketId): every socket is joined to the room named by its own id
SignalEmits(idx, rs, conn, to, from, signal) ==
    IF to \in DOMAIN idx
    THEN << Emit("signal", {idx[to]} \cap conn, [from |-> from, signal |-> signal]) >>
    ELSE << >>

Signal(s, to, from, signal) ==
    /\ UNCHANGED <<scope, client, pair>>
    /\ s \in connected
    /\ sent' = SignalEmits(userSocketMap, rooms, connected, to, from, signal)
    /\ ev' = [op |-> "signal", socket |-> s, to |-> to, from |-> from,
              signal |-> signal]
    /\ pre' = Core
    /\ UNCHANGED <<rooms, userSocketMap, groups, connected>>

\* ------------------------------------------------------------------------
\* request-participants
\* ------------------------------------------------------------------------
\* request-participants that answers nothing for a room it has
RequestEmitsEmpty(rs, s, r) ==
    << Emit("existing-participants", {s}, << >>) >>

RequestEmits(rs, s, r) ==
    IF HasRoom(rs, r)
    THEN << Emit("existing-participants", {s}, Participants(GetRoom(rs, r))) >>
    ELSE << Emit("existing-participants", {s}, << >>) >>

RequestParticipants(s, r) ==
    /\ UNCHANGED <<scope, client, pair>>
    /\ s \in connected
    /\ sent' = RequestEmits(rooms, s, r)
    /\ ev' = [op |-> "request-participants", socket |-> s, roomId |-> r]
    /\ pre' = Core
    /\ UNCHANGED <<rooms, userSocketMap, groups, connected>>

\* ------------------------------------------------------------------------
\* connection / disconnect
\* ------------------------------------------------------------------------
Connection(s) ==
    /\ UNCHANGED <<scope, client, pair>>
    /\ s \notin connected
    /\ connected' = connected \cup {s}
    /\ sent' = << >>
    /\ ev' = [op |-> "connection", socket |-> s]
    /\ pre' = Core
    /\ UNCHANGED <<rooms, userSocketMap, groups>>

\* participants.forEach of one room: the members bound to the socket are
\* deleted one by one, each deletion followed by userLeft and either the
\* removal of the emptied room or a participant-count.
RECURSIVE SweepMembers(_, _, _, _, _)
SweepMembers(members, todo, s, r, g) ==
    IF todo = << >> THEN [members |-> members, emits |-> << >>]
    ELSE LET m == Head(todo)
         IN  IF m.socketId = s
             THEN LET left == MapDelete(members, m.userId)
                      rest == SweepMembers(left, Tail(todo), s, r, g)
                  IN  [members |-> rest.members,
                       emits |-> << Emit("userLeft", g \ {s}, [userId |-> m.userId]) >>
                                 \o (IF Len(left) = 0 THEN << >>
                                     ELSE << Emit("participant-count", g, Len(left)) >>)
                                 \o rest.emits]
             ELSE SweepMembers(members, Tail(todo), s, r, g)

\* rooms.forEach: the sweep of every room in insertion order
RECURSIVE SweepRooms(_, _, _)
SweepRooms(todo, s, gs) ==
    IF todo = << >> THEN [rooms |-> << >>, emits |-> << >>]
    ELSE LET room == Head(todo)
             one == SweepMembers(room.members, room.members, s, room.roomId,
                                 gs[room.roomId])
             rest == SweepRooms(Tail(todo), s, gs)
         IN  [rooms |-> (IF Len(one.members) = 0 THEN << >>
                         ELSE << [roomId |-> room.roomId, members |-> one.members] >>)
                        \o rest.rooms,
              emits |-> one.emits \o rest.emits]

DisconnectRooms(rs, s, gs) == SweepRooms(rs, s, gs).rooms

DisconnectEmits(rs, s, gs) == SweepRooms(rs, s, gs).emits

\* the disconnect emptying the index instead of dropping the socket's entries
DisconnectIndexByUser(idx, s) == EmptyMap

DisconnectIndex(idx, s) == IndexDropSocket(idx, s)

\* socket.io has taken the socket out of every adapter room before the
\* 'disconnect' listeners run.
LeaveAll(gs, s) == [r \in DOMAIN gs |-> gs[r] \ {s}]

Disconnect(s) ==
    /\ UNCHANGED <<scope, client, pair>>
    /\ s \in connected
    /\ connected' = connected \ {s}
    /\ groups' = LeaveAll(groups, s)
    /\ rooms' = DisconnectRooms(rooms, s, LeaveAll(groups, s))
    /\ sent' = DisconnectEmits(rooms, s, LeaveAll(groups, s))
    /\ userSocketMap' = DisconnectIndex(userSocketMap, s)
    /\ ev' = [op |-> "disconnect", socket |-> s]
    /\ pre' = Core

\* ========================================================================
\* The client: WebRTCService
\*
\* The browser runs one task at a time.  A handler runs until it reaches an
\* await on the RTC engine or on a timer; the rest of it is a record in
\* client.tasks that a later step resumes.  An await on a promise that is
\* already settled (an async function that returned without waiting) resumes
\* before any other event is handled, so the handler carries on in the same
\* step.
\* ========================================================================
MAX_PEER_CONNECTIONS == 10

\* Bounds of the client model
NumCapUsers == 12
MaxConns == 12
MaxTasks == 2
MaxTimers == 1
MaxIce == 2
MaxNow == 1
MaxWire == 3
MaxTrackId == 3

CapNames == << "c01", "c02", "c03", "c04", "c05", "c06", "c07", "c08", "c09",
               "c10", "c11", "c12", "c13" >>
CapUsers == {CapNames[i] : i \in 1..NumCapUsers}
ConnIds == 1..MaxConns
NegUsers == {"u2"}
\* descriptions of a remote side that is not modelled: it has no media
Descriptions == {[type |-> "offer", media |-> FALSE],
                 [type |-> "answer", media |-> FALSE]}
\* descriptions of a remote side that sends its camera or its screen
MediaDescriptions == {[type |-> "offer", media |-> TRUE],
                      [type |-> "answer", media |-> TRUE]}
NoDescription == [type |-> "none"]
Candidates == {[candidate |-> "c1"], [candidate |-> "c2"]}
\* a candidate the engine rejects: it names a media section the remote
\* description does not have
BadCandidate == [candidate |-> "bad"]

\* All user ids, in the order of JavaScript's < on strings.
IdOrder == CapNames \o << "u1", "u2", "u3", "zz" >>

IdRank(a) == CHOOSE i \in 1..Len(IdOrder) : IdOrder[i] = a

\* no side yields: each is impolite towards the other
IsPoliteNever(myUserId, userId) == FALSE

\* const isPolite = myUserId < userId
IsPolite(myUserId, userId) == IdRank(myUserId) < IdRank(userId)

NoFlags == [u \in {} |-> TRUE]
NoQueues == [u \in {} |-> << >>]
NoObjects == [c \in {} |-> TRUE]

\* The fields of a WebRTCService after construction, for the user id the
\* session holds; pcs are the RTCPeerConnection objects it has created.
NewClient(myUserId) ==
    [myUserId |-> myUserId,
     localStream |-> "null",
     peerConnections |-> << >>,
     connectionCreationTime |-> << >>,
     pendingConnections |-> << >>,
     makingOffer |-> NoFlags,
     pendingIce |-> NoQueues,
     pcs |-> NoObjects,
     tasks |-> << >>,
     timers |-> << >>,
     now |-> 0,
     out |-> << >>,
     implicitRollback |-> TRUE,
     early |-> << >>,
     resolved |-> << >>,
     gone |-> {},
     owed |-> {},
     repaid |-> {},
     lapsed |-> {},
     ok |-> TRUE]

\* new RTCPeerConnection(configuration) with its listeners; addTrack on a
\* stream that has tracks makes the engine queue a negotiationneeded event.
NewPc(u, tracks) ==
    [user |-> u, signalingState |-> "stable", closed |-> FALSE,
     pendingLocal |-> FALSE, currentLocal |-> FALSE,
     pendingRemote |-> FALSE, currentRemote |-> FALSE, ice |-> "new",
     lastLocal |-> NoDescription, lastRemote |-> NoDescription,
     tracks |-> tracks, negotiationNeeded |-> tracks, candidates |-> << >>,
     connectionState |-> "new", remoteStream |-> << >>]

\* a close() that leaves the connection as it is
ClosePcOperable(pc) == pc

\* RTCPeerConnection.close(): every later operation on the connection fails
\* and no event fires, so nothing but its owner and its being closed is kept
ClosePc(pc) ==
    [NewPc(pc.user, FALSE) EXCEPT !.closed = TRUE, !.signalingState = "closed",
                                  !.connectionState = "closed"]

\* Map.prototype.delete / Record delete on a map keyed by user id
FnDelete(f, u) == [x \in DOMAIN f \ {u} |-> f[x]]

FnSet(f, u, v) == [x \in DOMAIN f \cup {u} |-> IF x = u THEN v ELSE f[x]]

\* this.makingOffer.get(userId) as a condition
IsMakingOffer(w, u) == u \in DOMAIN w.makingOffer /\ w.makingOffer[u]

\* makingOffer.set that never writes false
SetMakingOfferForGood(w, u, b) == [w EXCEPT !.makingOffer = FnSet(@, u, TRUE)]

SetMakingOffer(w, u, b) == [w EXCEPT !.makingOffer = FnSet(@, u, b)]

\* this.pendingConnections.add / delete / has
PendingAdd(w, u) ==
    IF \E i \in 1..Len(w.pendingConnections) : w.pendingConnections[i] = u
    THEN w
    ELSE [w EXCEPT !.pendingConnections = Append(@, u)]

PendingDelete(w, u) ==
    [w EXCEPT !.pendingConnections = SelectSeq(@, LAMBDA x : x # u)]

PendingHas(w, u) ==
    \E i \in 1..Len(w.pendingConnections) : w.pendingConnections[i] = u

\* the connection object this.peerConnections holds for the user, 0 for none
PeerOf(w, u) ==
    IF HasMember(w.peerConnections, u) THEN GetMember(w.peerConnections, u).conn
    ELSE 0

\* an await: the rest of the handler waits in the task list
Park(w, t) ==
    IF Len(w.tasks) >= MaxTasks THEN [w EXCEPT !.ok = FALSE]
    ELSE [w EXCEPT !.tasks = Append(@, t)]

\* setTimeout
SetTimer(w, t) ==
    IF Len(w.timers) >= MaxTimers THEN [w EXCEPT !.ok = FALSE]
    ELSE [w EXCEPT !.timers = Append(@, t)]

\* this.socket.emit('signal', {to, from: myUserId, signal}); current records
\* whether connection c, for which the signal is sent, is the one that
\* peerConnections holds for the user at the moment of sending
SendSignal(w, c, to, signal) ==
    [w EXCEPT !.out = Append(@, [to |-> to, from |-> w.myUserId, signal |-> signal,
                                 current |-> PeerOf(w, to) = c])]

\* ------------------------------------------------------------------------
\* removePeerConnection, closeAllConnections, cleanupOldestConnection
\* ------------------------------------------------------------------------
\* removePeerConnection without peerConnection.close()
RemovePeerConnectionLeftOpen(w, u) ==
    IF HasMember(w.peerConnections, u)
    THEN [w EXCEPT !.peerConnections = MapDelete(@, u),
                   !.connectionCreationTime = MapDelete(@, u),
                   !.makingOffer = FnDelete(@, u),
                   !.pendingIce = FnDelete(@, u)]
    ELSE w

RemovePeerConnection(w, u) ==
    IF HasMember(w.peerConnections, u)
    THEN LET c == PeerOf(w, u)
         IN  [w EXCEPT !.pcs = [@ EXCEPT ![c] = ClosePc(@)],
                       !.peerConnections = MapDelete(@, u),
                       !.connectionCreationTime = MapDelete(@, u),
                       !.makingOffer = FnDelete(@, u),
                       !.pendingIce = FnDelete(@, u)]
    ELSE w

\* closeAllConnections without connection.close()
CloseAllLeftOpen(w) ==
    [w EXCEPT !.peerConnections = << >>, !.localStream = "null"]

CloseAll(w) ==
    LET held == {w.peerConnections[i].conn : i \in 1..Len(w.peerConnections)}
    IN  [w EXCEPT !.pcs = [c \in DOMAIN @ |-> IF c \in held THEN ClosePc(@[c]) ELSE @[c]],
                  !.peerConnections = << >>,
                  !.localStream = "null"]

\* Array.from(connectionCreationTime.entries()).sort((a, b) => a[1] - b[1])[0][0]:
\* the sort is stable, so of the entries with the least time the first wins
OldestUserId(times) ==
    LET i == CHOOSE i \in 1..Len(times) :
                 /\ \A j \in 1..Len(times) : times[i].time <= times[j].time
                 /\ \A j \in 1..(i - 1) : times[j].time > times[i].time
    IN  times[i].userId

CleanupOldestConnection(w) ==
    IF Len(w.peerConnections) = 0 THEN w
    ELSE IF Len(w.connectionCreationTime) > 0
         THEN PendingAdd(RemovePeerConnection(w, OldestUserId(w.connectionCreationTime)),
                         OldestUserId(w.connectionCreationTime))
         ELSE w

\* ------------------------------------------------------------------------
\* createPeerConnection
\* ------------------------------------------------------------------------
FreeConns(w) == ConnIds \ DOMAIN w.pcs

CreatePeerConnection(w, u) ==
    IF HasMember(w.peerConnections, u)
    THEN [w |-> w, conn |-> PeerOf(w, u), threw |-> FALSE]
    ELSE IF w.localStream = "null"
    THEN [w |-> w, conn |-> 0, threw |-> TRUE]
    ELSE LET w1 == IF Len(w.peerConnections) >= MAX_PEER_CONNECTIONS
                   THEN CleanupOldestConnection(w) ELSE w
         IN  IF FreeConns(w1) = {}
             THEN [w |-> [w1 EXCEPT !.ok = FALSE], conn |-> 0, threw |-> FALSE]
             ELSE LET c == CHOOSE c \in FreeConns(w1) : \A d \in FreeConns(w1) : c <= d
                  IN  [w |-> [w1 EXCEPT
                                !.pcs = FnSet(@, c, NewPc(u, w1.localStream = "media")),
                                !.connectionCreationTime =
                                    MapSet(@, [userId |-> u, time |-> w1.now]),
                                !.peerConnections =
                                    MapSet(@, [userId |-> u, conn |-> c])],
                       conn |-> c, threw |-> FALSE]

\* ------------------------------------------------------------------------
\* initiateCall and what its callers do when it settles
\* ------------------------------------------------------------------------
RECURSIVE InitiateCall(_, _, _)
RECURSIVE Settled(_, _, _, _)
RECURSIVE RetryPending(_, _)
RECURSIVE CallParticipants(_, _, _)

\* k is the caller: which handler awaits the call, the users it has still to
\* call, and whether it lent a dummy stream to the call.  owed lists the
\* users whose connection failed and who were not called since; repaid lists
\* those of them that this step calls.
InitiateCall(w, u, k) ==
    LET r == CreatePeerConnection([w EXCEPT !.repaid = @ \cup (w.owed \cap {u}),
                                            !.owed = @ \ {u}], u)
    IN  IF ~r.w.ok THEN r.w
        ELSE IF r.threw THEN Settled(r.w, u, k, FALSE)
        ELSE IF ~IsPolite(w.myUserId, u) THEN Settled(r.w, u, k, TRUE)
        ELSE IF IsMakingOffer(r.w, u)
        THEN Settled(SetMakingOffer(r.w, u, FALSE), u, k, TRUE)
        ELSE IF r.w.pcs[r.conn].signalingState # "stable"
        THEN Settled(SetMakingOffer(r.w, u, FALSE), u, k, TRUE)
        ELSE Park(SetMakingOffer(r.w, u, TRUE),
                  [kind |-> "initiateCall", pc |-> "createOffer", user |-> u,
                   conn |-> r.conn, at |-> r.w.pcs[r.conn].signalingState,
                   k |-> k])

\* the promise of setLocalStream resolves; called lists the users the call
\* had to call: existingPeers and then its copy of pendingConnections
Resolve(w, called) == [w EXCEPT !.resolved = Append(@, called)]

\* the second half of setLocalStream: the users of pendingConnections
RetryPending(w, existingPeers) ==
    IF Len(w.pendingConnections) > 0
    THEN InitiateCall([w EXCEPT !.pendingConnections = << >>],
                      Head(w.pendingConnections),
                      [caller |-> "retryPending", dummy |-> FALSE,
                       rest |-> Tail(w.pendingConnections),
                       called |-> existingPeers \o w.pendingConnections])
    ELSE Resolve(w, existingPeers)

\* initiateCall(u) has returned (fine) or thrown (~fine) to its caller k
Settled(w, u, k, fine) ==
    LET w1 == IF fine THEN w ELSE PendingAdd(w, u)
    IN  CASE k.caller = "userJoined" ->
                IF fine /\ k.dummy THEN [w1 EXCEPT !.localStream = "null"] ELSE w1
          [] k.caller = "swapPeers" ->
                IF k.rest = << >> THEN RetryPending(w1, k.called)
                ELSE InitiateCall(w1, Head(k.rest), [k EXCEPT !.rest = Tail(@)])
          [] k.caller = "retryPending" ->
                IF k.rest = << >> THEN Resolve(w1, k.called)
                ELSE InitiateCall(w1, Head(k.rest), [k EXCEPT !.rest = Tail(@)])
          [] k.caller = "timer" -> w1
          [] k.caller = "userRejoined" -> w1
          [] k.caller = "retryTimer" -> w
          [] k.caller = "existing" ->
                CallParticipants(
                    IF fine
                    THEN IF k.dummy THEN [w EXCEPT !.localStream = "null"] ELSE w
                    ELSE SetTimer(w1, [kind |-> "retry", user |-> u, conn |-> 0]),
                    k.socket, k.rest)

\* the loop of socket.on('existing-participants') from one participant on
CallParticipants(w, socketId, participants) ==
    IF participants = << >> THEN w
    ELSE IF Head(participants).socketId = socketId
    THEN CallParticipants(w, socketId, Tail(participants))
    ELSE InitiateCall(
             IF w.localStream # "null" THEN w ELSE [w EXCEPT !.localStream = "empty"],
             Head(participants).userId,
             [caller |-> "existing", dummy |-> (w.localStream = "null"),
              rest |-> Tail(participants), socket |-> socketId])

\* ------------------------------------------------------------------------
\* The handlers that run to their first await
\* ------------------------------------------------------------------------
\* RTCPeerConnection objects that are closed and that nothing refers to any
\* more are gone.  The objects that remain are those the table, a waiting
\* task or a timer holds and those that are still open; they are numbered in
\* that order, the number being no more than a name.
RECURSIVE Distinct(_, _)
Distinct(seq, seen) ==
    IF seq = << >> THEN << >>
    ELSE IF Head(seq) \in seen THEN Distinct(Tail(seq), seen)
    ELSE << Head(seq) >> \o Distinct(Tail(seq), seen \cup {Head(seq)})

ConnsOf(seq) == [i \in 1..Len(seq) |-> seq[i].conn]

\* the connections that were created and not closed, in the order of creation
OpenConns(w) ==
    SelectSeq([c \in 1..MaxConns |-> c],
              LAMBDA c : c \in DOMAIN w.pcs /\ ~w.pcs[c].closed)

Collect(w) ==
    LET ord == Distinct(ConnsOf(w.peerConnections) \o ConnsOf(w.tasks)
                            \o ConnsOf(w.timers) \o OpenConns(w), {0})
        name(c) == IF c = 0 THEN 0 ELSE CHOOSE i \in 1..Len(ord) : ord[i] = c
        named(seq) == [i \in 1..Len(seq) |-> [seq[i] EXCEPT !.conn = name(@)]]
    IN  [w EXCEPT !.pcs = [i \in 1..Len(ord) |-> w.pcs[ord[i]]],
                  !.peerConnections = named(@),
                  !.tasks = named(@),
                  !.timers = named(@)]

\* a handler starts with nothing emitted yet
Begin == [client EXCEPT !.out = << >>, !.resolved = << >>, !.repaid = {},
                        !.lapsed = {}]

\* the state a handler leaves behind
Step(w) ==
    /\ w.ok
    /\ client' = Collect(w)

\* socket.on('userJoined')
OnUserJoined(w, u) ==
    IF w.localStream # "null"
    THEN InitiateCall(w, u, [caller |-> "userJoined", dummy |-> FALSE, rest |-> << >>])
    ELSE InitiateCall([w EXCEPT !.localStream = "empty"], u,
                      [caller |-> "userJoined", dummy |-> TRUE, rest |-> << >>])

\* gone lists the users whose userLeft was handled and who have not joined
\* again since
UserJoined(u) ==
    /\ Step([OnUserJoined(Begin, u) EXCEPT !.gone = @ \ {u}])
    /\ UNCHANGED <<srvVars, pair>>

\* socket.on('existing-participants') on the socket whose id is socketId
OnExistingParticipants(w, socketId, participants) ==
    CallParticipants(w, socketId, participants)

\* the callback of the 2000 ms timer that existing-participants sets when a
\* call failed
OnRetryTimer(w, t) ==
    IF ~PendingHas(w, t.user) THEN w
    ELSE IF w.localStream # "null"
    THEN InitiateCall(w, t.user, [caller |-> "retryTimer", dummy |-> FALSE, rest |-> << >>])
    ELSE LET w1 == InitiateCall([w EXCEPT !.localStream = "empty"], t.user,
                                [caller |-> "retryTimer", dummy |-> FALSE, rest |-> << >>])
         IN  [w1 EXCEPT !.localStream = "null"]

\* socket.on('userLeft')
OnUserLeft(w, u) == PendingDelete(RemovePeerConnection(w, u), u)

UserLeft(u) ==
    /\ Step([OnUserLeft(Begin, u) EXCEPT !.gone = @ \cup {u}, !.owed = @ \ {u}])
    /\ UNCHANGED <<srvVars, pair>>

CloseAllConnections ==
    /\ Step(CloseAll(Begin))
    /\ UNCHANGED <<srvVars, pair>>

\* removePeerConnection for each key of peerConnections
RECURSIVE RemoveEach(_, _)
RemoveEach(w, todo) ==
    IF todo = << >> THEN w
    ELSE RemoveEach(RemovePeerConnection(w, Head(todo)), Tail(todo))

\* setLocalStream up to the 500 ms pause, or all of it when there are no peers
OnSetLocalStream(w, stream) ==
    LET w1 == [w EXCEPT !.localStream = stream]
        existingPeers == [i \in 1..Len(w.peerConnections) |-> w.peerConnections[i].userId]
    IN  IF Len(w.peerConnections) > 0
        THEN Park(RemoveEach(w1, existingPeers),
                  [kind |-> "setLocalStream", pc |-> "pause", user |-> "",
                   conn |-> 0, rest |-> existingPeers])
        ELSE RetryPending(w1, << >>)

SetLocalStream(stream) ==
    /\ Step(OnSetLocalStream(Begin, stream))
    /\ UNCHANGED <<srvVars, pair>>

\* setLocalStream that calls nobody after the pause
OnPauseOverIdle(w, t) == Resolve(w, t.rest)

\* setLocalStream after the pause: the loop over existingPeers
OnPauseOver(w, t) ==
    InitiateCall(w, Head(t.rest),
                 [caller |-> "swapPeers", dummy |-> FALSE, rest |-> Tail(t.rest),
                  called |-> t.rest])

RemoveAt(seq, i) == SubSeq(seq, 1, i - 1) \o SubSeq(seq, i + 1, Len(seq))

PauseOver(i) ==
    /\ i \in 1..Len(client.tasks)
    /\ client.tasks[i].pc = "pause"
    /\ Step(OnPauseOver([Begin EXCEPT !.tasks = RemoveAt(@, i)], client.tasks[i]))
    /\ UNCHANGED <<srvVars, pair>>

\* Date.now() moves on
Tick ==
    /\ client.now < MaxNow
    /\ Step([Begin EXCEPT !.now = @ + 1])
    /\ UNCHANGED <<srvVars, pair>>

\* ------------------------------------------------------------------------
\* The RTC engine: when an operation on a connection succeeds and what it
\* leaves behind.  The operations of one connection settle in the order in
\* which they were started.
\* ------------------------------------------------------------------------
PcPut(w, c, pc) == [w EXCEPT !.pcs = [@ EXCEPT ![c] = pc]]

\* RTCPeerConnection.remoteDescription: the pending one, else the current one
RemoteDescription(pc) == pc.pendingRemote \/ pc.currentRemote

CreateOfferOk(pc) == ~pc.closed

SetLocalOfferOk(pc) ==
    ~pc.closed /\ pc.signalingState \in {"stable", "have-local-offer"}

AfterSetLocalOffer(pc, sdp) ==
    [pc EXCEPT !.signalingState = "have-local-offer", !.pendingLocal = TRUE,
               !.lastLocal = sdp]

RollbackOk(pc) ==
    ~pc.closed /\ pc.signalingState \in {"have-local-offer", "have-remote-offer"}

AfterRollback(pc) ==
    [pc EXCEPT !.signalingState = "stable", !.pendingLocal = FALSE,
               !.pendingRemote = FALSE]

\* a remote offer on top of a local one: engines with implicit rollback take
\* it, the others reject it
SetRemoteOfferOk(pc, implicitRollback) ==
    /\ ~pc.closed
    /\ \/ pc.signalingState \in {"stable", "have-remote-offer"}
       \/ implicitRollback /\ pc.signalingState = "have-local-offer"

AfterSetRemoteOffer(pc, sdp) ==
    [pc EXCEPT !.signalingState = "have-remote-offer", !.pendingLocal = FALSE,
               !.pendingRemote = TRUE, !.lastRemote = sdp]

\* an engine that takes an answer in any signaling state
SetRemoteAnswerOkAnyState(pc) == ~pc.closed

SetRemoteAnswerOk(pc) == ~pc.closed /\ pc.signalingState = "have-local-offer"

\* the local offer is answered: the local tracks are negotiated
AfterSetRemoteAnswer(pc, sdp) ==
    [pc EXCEPT !.signalingState = "stable", !.pendingLocal = FALSE,
               !.currentLocal = TRUE, !.currentRemote = TRUE, !.ice = "new",
               !.lastRemote = sdp, !.negotiationNeeded = FALSE]

CreateAnswerOk(pc) == ~pc.closed /\ pc.signalingState = "have-remote-offer"

SetLocalAnswerOk(pc) == ~pc.closed /\ pc.signalingState = "have-remote-offer"

\* the remote offer is answered: the local tracks are negotiated when the
\* offer had media sections to carry them
AfterSetLocalAnswer(pc, sdp) ==
    [pc EXCEPT !.signalingState = "stable", !.pendingRemote = FALSE,
               !.currentLocal = TRUE, !.currentRemote = TRUE, !.ice = "new",
               !.lastLocal = sdp,
               !.negotiationNeeded = @ /\ ~pc.lastRemote.media]

AddIceCandidateOk(pc, candidate) ==
    ~pc.closed /\ RemoteDescription(pc) /\ candidate # BadCandidate

AfterAddIceCandidate(pc, candidate) == [pc EXCEPT !.candidates = Append(@, candidate)]

\* ------------------------------------------------------------------------
\* restartIce and the negotiationneeded listener
\* ------------------------------------------------------------------------
\* the catch block of restartIce
RestartIceFailed(w, u) ==
    SetTimer(PendingAdd(RemovePeerConnection(w, u), u),
             [kind |-> "reconnect", user |-> u, conn |-> 0])

\* restartIce up to its first await
RestartIce(w, u, c) ==
    IF ~HasMember(w.peerConnections, u) THEN w
    ELSE IF PeerOf(w, u) # c THEN w
    ELSE Park(w, [kind |-> "restartIce", pc |-> "createOffer", user |-> u,
                  conn |-> c, at |-> w.pcs[c].signalingState])

\* peerConnection.oniceconnectionstatechange with iceConnectionState 'failed'
OnIceFailed(w, c) ==
    RestartIce(PcPut(w, c, [w.pcs[c] EXCEPT !.ice = "failed"]), w.pcs[c].user, c)

\* peerConnection.onnegotiationneeded: the debounce timer is armed anew
OnNegotiationNeeded(w, c) ==
    LET u == w.pcs[c].user
        w1 == PcPut(w, c, [w.pcs[c] EXCEPT !.negotiationNeeded = FALSE])
    IN  IF IsMakingOffer(w1, u) THEN w1
        ELSE SetTimer([w1 EXCEPT !.timers =
                          SelectSeq(@, LAMBDA t : ~(t.kind = "negotiation" /\ t.conn = c))],
                      [kind |-> "negotiation", user |-> u, conn |-> c])

\* the callback of the debounce timer, up to its first await
OnNegotiationTimer(w, t) ==
    IF IsMakingOffer(w, t.user) THEN w
    ELSE IF w.pcs[t.conn].signalingState # "stable"
    THEN SetMakingOffer(w, t.user, FALSE)
    ELSE Park(SetMakingOffer(w, t.user, TRUE),
              [kind |-> "negotiation", pc |-> "createOffer", user |-> t.user,
               conn |-> t.conn, at |-> w.pcs[t.conn].signalingState])

\* the callback of the 2000 ms timer that restartIce sets when it fails
OnReconnectTimer(w, t) ==
    IF PendingHas(w, t.user)
    THEN InitiateCall(PendingDelete(w, t.user), t.user,
                      [caller |-> "timer", dummy |-> FALSE, rest |-> << >>])
    ELSE w

\* a handler that removes the connection and sets no timer
ReconnectUnscheduled(w, u) == PendingAdd(RemovePeerConnection(w, u), u)

\* the 2000 ms timer that onconnectionstatechange sets after it removed a
\* connection: its callback is that of restartIce's timer but for a toast
Reconnect(w, u) ==
    SetTimer(PendingAdd(RemovePeerConnection(w, u), u),
             [kind |-> "reconnect", user |-> u, conn |-> 0])

\* peerConnection.onconnectionstatechange with connectionState 'connected'
OnConnected(w, c) == PcPut(w, c, [w.pcs[c] EXCEPT !.connectionState = "connected"])

\* peerConnection.onconnectionstatechange with connectionState 'disconnected'
OnDisconnected(w, c) ==
    SetTimer(PcPut(w, c, [w.pcs[c] EXCEPT !.connectionState = "disconnected"]),
             [kind |-> "grace", user |-> w.pcs[c].user, conn |-> c])

\* peerConnection.onconnectionstatechange with connectionState 'failed'
OnFailed(w, c) ==
    Reconnect(PcPut(w, c, [w.pcs[c] EXCEPT !.connectionState = "failed"]), w.pcs[c].user)

\* a grace timer that does not look at the state of the connection
OnGraceTimerAnyState(w, t) ==
    IF ~HasMember(w.peerConnections, t.user) THEN w
    ELSE IF PeerOf(w, t.user) # t.conn THEN w
    ELSE Reconnect(w, t.user)

\* the callback of the 5000 ms timer set when a connection was disconnected
OnGraceTimer(w, t) ==
    IF ~HasMember(w.peerConnections, t.user) THEN w
    ELSE IF PeerOf(w, t.user) # t.conn THEN w
    ELSE IF w.pcs[t.conn].connectionState \in {"disconnected", "failed"}
    THEN Reconnect(w, t.user)
    ELSE w

\* ------------------------------------------------------------------------
\* peerConnection.ontrack
\* ------------------------------------------------------------------------
\* a remote track: its kind, whether its label holds 'screen', 'window',
\* 'tab' or 'display', whether its settings have a displaySurface, whether
\* its settings say more than 1000 x 700
TrackShapes ==
    {[kind |-> "audio", label |-> FALSE, displaySurface |-> FALSE, large |-> FALSE],
     [kind |-> "video", label |-> FALSE, displaySurface |-> FALSE, large |-> FALSE],
     [kind |-> "video", label |-> TRUE, displaySurface |-> FALSE, large |-> FALSE],
     [kind |-> "video", label |-> FALSE, displaySurface |-> TRUE, large |-> FALSE],
     [kind |-> "video", label |-> FALSE, displaySurface |-> FALSE, large |-> TRUE]}

TrackIds == 1..MaxTrackId

\* track.label && (label has one of the four keywords)
LabelledScreen(track) == track.label

\* const isScreen
IsScreen(track) ==
    \/ LabelledScreen(track)
    \/ track.displaySurface
    \/ track.kind = "video" /\ track.large

\* remoteStream.getTracks().find(...): the index of the first track of the
\* kind whose label has none of the keywords, 0 when there is none
ExistingTrack(stream, kind) ==
    LET plain == {i \in 1..Len(stream) :
                     stream[i].kind = kind /\ ~LabelledScreen(stream[i])}
    IN  IF plain = {} THEN 0
        ELSE CHOOSE i \in plain : \A j \in plain : i <= j

\* the listener; its branch for an event with streams and its branch for an
\* event without do the same to remoteStream
OnTrack(w, c, track) ==
    LET stream == w.pcs[c].remoteStream
        found == ExistingTrack(stream, track.kind)
        kept == IF IsScreen(track) /\ track.kind = "video"
                THEN SelectSeq(stream, LAMBDA t : ~(t.kind = "video" /\ LabelledScreen(t)))
                ELSE IF found # 0 THEN RemoveAt(stream, found)
                ELSE stream
    IN  PcPut(w, c, [w.pcs[c] EXCEPT !.remoteStream = Append(kept, track)])

\* ------------------------------------------------------------------------
\* socket.on('signal')
\* ------------------------------------------------------------------------
\* a collision that is seen only while this side is making an offer
OfferCollisionWhileMaking(w, u) == PeerOf(w, u) # 0 /\ IsMakingOffer(w, u)

\* const offerCollision
OfferCollision(w, u) ==
    /\ PeerOf(w, u) # 0
    /\ IsMakingOffer(w, u) \/ w.pcs[PeerOf(w, u)].signalingState # "stable"

\* the handler up to its first await
OnSignal(w, u, signal) ==
    LET c == PeerOf(w, u)
        isPolite == IsPolite(w.myUserId, u)
        task(pc) == [kind |-> signal.type, pc |-> pc, user |-> u, conn |-> c,
                     signal |-> signal,
                     queue |-> << >>]
    IN  IF w.localStream = "null" THEN PendingAdd(w, u)
        ELSE IF "candidate" \in DOMAIN signal
        THEN IF c = 0 \/ ~RemoteDescription(w.pcs[c])
             THEN IF u \in DOMAIN w.pendingIce /\ Len(w.pendingIce[u]) >= MaxIce
                  THEN [w EXCEPT !.ok = FALSE]
                  ELSE [w EXCEPT !.pendingIce =
                           FnSet(@, u, IF u \in DOMAIN @ THEN Append(@[u], signal)
                                       ELSE << signal >>)]
             ELSE Park(w, [kind |-> "candidate", pc |-> "addIceCandidate",
                           user |-> u, conn |-> c, queue |-> << signal >>])
        ELSE IF signal.type = "offer"
        THEN IF OfferCollision(w, u) /\ ~isPolite
             THEN IF ~IsMakingOffer(w, u)
                  THEN Park(SetMakingOffer(w, u, TRUE),
                            [kind |-> "collision", pc |-> "createOffer",
                             user |-> u, conn |-> c,
                             at |-> w.pcs[c].signalingState])
                  ELSE w
             ELSE IF c = 0
             THEN LET r == CreatePeerConnection(w, u)
                  IN  IF r.threw \/ ~r.w.ok THEN r.w
                      ELSE Park(r.w, [task("setRemoteDescription") EXCEPT !.conn = r.conn])
             ELSE IF w.pcs[c].signalingState # "stable" /\ isPolite
             THEN Park(w, task("rollback"))
             ELSE Park(w, task("setRemoteDescription"))
        ELSE IF signal.type = "answer"
        THEN IF c = 0 THEN w
             ELSE IF w.pcs[c].signalingState = "have-local-offer"
             THEN Park(w, task("setRemoteDescription"))
             ELSE w
        ELSE w

\* after setRemoteDescription and the queued candidates: the answer to an
\* offer is created, an answer ends the offer this side was making
AfterCandidates(w, t) ==
    IF t.kind = "offer" THEN Park(w, [t EXCEPT !.pc = "createAnswer", !.queue = << >>])
    ELSE SetMakingOffer(w, t.user, FALSE)

\* after setRemoteDescription: the candidates that waited for it
AfterRemoteDescription(w, t) ==
    IF t.user \in DOMAIN w.pendingIce /\ Len(w.pendingIce[t.user]) > 0
    THEN Park(w, [t EXCEPT !.pc = "addIceCandidate", !.queue = w.pendingIce[t.user]])
    ELSE AfterCandidates(w, t)

\* ------------------------------------------------------------------------
\* The rest of a handler once the operation t.pc it awaits has settled
\* ------------------------------------------------------------------------
\* addIceCandidate has taken the candidate
CandidateAdded(w, c, candidate) ==
    IF Len(w.pcs[c].candidates) >= MaxIce THEN [w EXCEPT !.ok = FALSE]
    ELSE PcPut(w, c, AfterAddIceCandidate(w.pcs[c], candidate))

\* what createOffer and createAnswer make: a description names its maker and
\* the path that asked for it, an answer names the offer it answers
Offer(w, t) ==
    [type |-> "offer", from |-> w.myUserId, path |-> t.kind,
     media |-> w.pcs[t.conn].tracks]

Answer(w, t) ==
    [type |-> "answer", from |-> w.myUserId, to |-> w.pcs[t.conn].lastRemote,
     media |-> w.pcs[t.conn].tracks]

OfferMade(w, t) ==
    SendSignal(PcPut(w, t.conn, AfterSetLocalOffer(w.pcs[t.conn], Offer(w, t))),
               t.conn, t.user, Offer(w, t))

\* the handler calls setLocalDescription(offer): the task remembers the
\* signaling state the connection was in at the call
OfferCall(t, pc) ==
    [t EXCEPT !.pc = "setLocalDescription", !.at = pc.signalingState]

OnSettled(w, t) ==
    LET pc == w.pcs[t.conn]
        u == t.user
        released == SetMakingOffer(w, u, FALSE)
    IN  CASE t.kind = "initiateCall" /\ t.pc = "createOffer" ->
                IF CreateOfferOk(pc) /\ pc.signalingState = "stable"
                THEN Park(w, OfferCall(t, pc))
                ELSE Settled(released, u, t.k, TRUE)
          [] t.kind = "initiateCall" /\ t.pc = "setLocalDescription" ->
                IF SetLocalOfferOk(pc)
                THEN Settled(SetMakingOffer(OfferMade(w, t), u, FALSE), u, t.k, TRUE)
                ELSE Settled(released, u, t.k, TRUE)
          [] t.kind = "negotiation" /\ t.pc = "createOffer" ->
                IF CreateOfferOk(pc) /\ pc.signalingState = "stable"
                THEN Park(w, OfferCall(t, pc))
                ELSE released
          [] t.kind = "collision" /\ t.pc = "createOffer" ->
                IF CreateOfferOk(pc)
                THEN Park(w, OfferCall(t, pc))
                ELSE released
          [] t.kind \in {"negotiation", "collision"} /\ t.pc = "setLocalDescription" ->
                IF SetLocalOfferOk(pc)
                THEN SetMakingOffer(OfferMade(w, t), u, FALSE)
                ELSE released
          [] t.kind = "restartIce" /\ t.pc = "createOffer" ->
                IF CreateOfferOk(pc)
                THEN Park(w, OfferCall(t, pc))
                ELSE RestartIceFailed(w, u)
          [] t.kind = "restartIce" /\ t.pc = "setLocalDescription" ->
                IF SetLocalOfferOk(pc) THEN OfferMade(w, t)
                ELSE RestartIceFailed(w, u)
          [] t.kind = "offer" /\ t.pc = "rollback" ->
                IF RollbackOk(pc)
                THEN Park(PcPut(w, t.conn, AfterRollback(pc)),
                          [t EXCEPT !.pc = "setRemoteDescription"])
                ELSE w
          [] t.kind = "offer" /\ t.pc = "setRemoteDescription" ->
                IF SetRemoteOfferOk(pc, w.implicitRollback)
                THEN AfterRemoteDescription(
                         PcPut(w, t.conn, AfterSetRemoteOffer(pc, t.signal)), t)
                ELSE w
          [] t.kind = "answer" /\ t.pc = "setRemoteDescription" ->
                IF SetRemoteAnswerOk(pc)
                THEN AfterRemoteDescription(
                         PcPut(w, t.conn, AfterSetRemoteAnswer(pc, t.signal)), t)
                ELSE w
          [] t.kind \in {"offer", "answer"} /\ t.pc = "addIceCandidate" ->
                IF AddIceCandidateOk(pc, Head(t.queue))
                THEN LET w1 == CandidateAdded(w, t.conn, Head(t.queue))
                     IN  IF Len(t.queue) > 1
                         THEN Park(w1, [t EXCEPT !.queue = Tail(@)])
                         ELSE AfterCandidates([w1 EXCEPT !.pendingIce = FnDelete(@, u)], t)
                ELSE w
          [] t.kind = "candidate" ->
                IF AddIceCandidateOk(pc, Head(t.queue))
                THEN CandidateAdded(w, t.conn, Head(t.queue))
                ELSE w
          [] t.kind = "offer" /\ t.pc = "createAnswer" ->
                IF CreateAnswerOk(pc)
                THEN Park(w, [t EXCEPT !.pc = "setLocalDescription"])
                ELSE w
          [] t.kind = "offer" /\ t.pc = "setLocalDescription" ->
                IF SetLocalAnswerOk(pc)
                THEN SendSignal(PcPut(w, t.conn, AfterSetLocalAnswer(pc, Answer(w, t))),
                                t.conn, u, Answer(w, t))
                ELSE w

\* ------------------------------------------------------------------------
\* The steps of the client that the engine, the timers and the server cause
\* ------------------------------------------------------------------------
\* a signal from the server
IncomingSignal(u, signal) ==
    /\ Step(OnSignal(Begin, u, signal))
    /\ UNCHANGED <<srvVars, pair>>

\* the engine fires negotiationneeded: tracks were added, the connection is
\* stable and none of its operations is pending
NegotiationNeeded(c) ==
    /\ c \in DOMAIN client.pcs
    /\ ~client.pcs[c].closed
    /\ client.pcs[c].negotiationNeeded
    /\ client.pcs[c].signalingState = "stable"
    /\ \A i \in 1..Len(client.tasks) : client.tasks[i].conn # c
    /\ Step(OnNegotiationNeeded(Begin, c))
    /\ UNCHANGED <<srvVars, pair>>

NegotiationTimer(i) ==
    /\ i \in 1..Len(client.timers)
    /\ client.timers[i].kind = "negotiation"
    /\ Step(OnNegotiationTimer([Begin EXCEPT !.timers = RemoveAt(@, i)], client.timers[i]))
    /\ UNCHANGED <<srvVars, pair>>

ReconnectTimer(i) ==
    /\ i \in 1..Len(client.timers)
    /\ client.timers[i].kind = "reconnect"
    /\ Step(OnReconnectTimer([Begin EXCEPT !.timers = RemoveAt(@, i)], client.timers[i]))
    /\ UNCHANGED <<srvVars, pair>>

\* the engine reports that ICE failed on a connection that was negotiated
IceFailed(c) ==
    /\ c \in DOMAIN client.pcs
    /\ ~client.pcs[c].closed
    /\ client.pcs[c].currentLocal /\ client.pcs[c].currentRemote
    /\ client.pcs[c].ice = "new"
    /\ Step(OnIceFailed(Begin, c))
    /\ UNCHANGED <<srvVars, pair>>

\* the engine reports the state of the transports of a negotiated connection
ConnectionConnected(c) ==
    /\ c \in DOMAIN client.pcs
    /\ ~client.pcs[c].closed
    /\ client.pcs[c].currentLocal /\ client.pcs[c].currentRemote
    /\ client.pcs[c].connectionState \in {"new", "disconnected"}
    /\ Step(OnConnected(Begin, c))
    /\ UNCHANGED <<srvVars, pair>>

ConnectionDisconnected(c) ==
    /\ c \in DOMAIN client.pcs
    /\ ~client.pcs[c].closed
    /\ client.pcs[c].connectionState = "connected"
    /\ Step(OnDisconnected(Begin, c))
    /\ UNCHANGED <<srvVars, pair>>

\* owed: the user of the failed connection is to be called again
ConnectionFailed(c) ==
    /\ c \in DOMAIN client.pcs
    /\ ~client.pcs[c].closed
    /\ client.pcs[c].currentLocal /\ client.pcs[c].currentRemote
    /\ client.pcs[c].connectionState \in {"new", "connected", "disconnected"}
    /\ Step([OnFailed(Begin, c) EXCEPT !.owed = @ \cup {client.pcs[c].user}])
    /\ UNCHANGED <<srvVars, pair>>

\* lapsed: the user of the grace timer that fired in this step
GraceTimer(i) ==
    /\ i \in 1..Len(client.timers)
    /\ client.timers[i].kind = "grace"
    /\ Step([OnGraceTimer([Begin EXCEPT !.timers = RemoveAt(@, i)], client.timers[i])
                EXCEPT !.lapsed = {client.timers[i].user}])
    /\ UNCHANGED <<srvVars, pair>>

\* the ids that no track of the stream has
FreeTrackIds(stream) ==
    {id \in TrackIds : \A i \in 1..Len(stream) : stream[i].id # id}

\* a track of the remote user arrives on a connection whose remote
\* description has media; the engine gives every track an id of its own
Track(c, shape) ==
    /\ c \in DOMAIN client.pcs
    /\ ~client.pcs[c].closed
    /\ RemoteDescription(client.pcs[c])
    /\ client.pcs[c].lastRemote.type # "none" /\ client.pcs[c].lastRemote.media
    /\ FreeTrackIds(client.pcs[c].remoteStream) # {}
    /\ LET free == FreeTrackIds(client.pcs[c].remoteStream)
           id == CHOOSE x \in free : \A y \in free : x <= y
       IN  Step(OnTrack(Begin, c, [id |-> id] @@ shape))
    /\ UNCHANGED <<srvVars, pair>>

\* the engine settles the oldest operation of a connection
OperationSettled(i) ==
    /\ i \in 1..Len(client.tasks)
    /\ client.tasks[i].pc # "pause"
    /\ \A j \in 1..(i - 1) : client.tasks[j].conn # client.tasks[i].conn
    /\ Step(OnSettled([Begin EXCEPT !.tasks = RemoveAt(@, i)], client.tasks[i]))
    /\ UNCHANGED <<srvVars, pair>>

\* ------------------------------------------------------------------------
\* The server
\* ------------------------------------------------------------------------
ServerInit ==
    /\ scope \in Scopes
    /\ rooms = << >>
    /\ userSocketMap = EmptyMap
    /\ groups = [r \in Rooms |-> {}]
    /\ connected = {}
    /\ ev = [op |-> "listen"]
    /\ sent = << >>
    /\ pre = [rooms |-> << >>, userSocketMap |-> EmptyMap,
              groups |-> [r \in Rooms |-> {}]]

\* no pair of browsers is watched
NoPair == [ends |-> << >>]

Init ==
    /\ ServerInit
    /\ client = NewClient("zz")
    /\ pair = NoPair

Next ==
    \/ \E s \in scope.sockets : Connection(s)
    \/ \E s \in scope.sockets, p \in scope.pairs :
          JoinRoom(s, p[1], p[2], NicknameOf[p[2]])
    \/ \E s \in scope.sockets, p \in scope.pairs : LeaveRoom(s, p[1], p[2])
    \/ \E s \in scope.sockets, r \in scope.rooms, m \in ChatBodies :
          ChatMessage(s, r, m)
    \/ \E s \in scope.sockets, to \in Users, from \in Users, sig \in Signals :
          Signal(s, to, from, sig)
    \/ \E s \in scope.sockets, r \in scope.rooms : RequestParticipants(s, r)
    \/ \E s \in scope.sockets : Disconnect(s)

Spec == Init /\ [][Next]_vars

\* ------------------------------------------------------------------------
\* Events whose payload is not what the listener destructures
\* ------------------------------------------------------------------------
\* join-room, leave-room and chat-message sent without a payload object, and
\* signal sent without a payload object or without its signal field
MalformedEvents == {"join-room", "leave-room", "chat-message", "signal"}

\* The listener throws a TypeError at its parameter pattern, or for signal at
\* signal.type, before it has read or written anything.  No listener has a
\* try block and the process has no uncaughtException handler: the process
\* ends, its Maps and its sockets with it, and pm2-runtime starts a new one.
Malformed(s, event) ==
    /\ UNCHANGED <<scope, client, pair>>
    /\ s \in connected
    /\ rooms' = << >>
    /\ userSocketMap' = EmptyMap
    /\ groups' = [r \in Rooms |-> {}]
    /\ connected' = {}
    /\ sent' = << >>
    /\ ev' = [op |-> "malformed", socket |-> s, event |-> event]
    /\ pre' = Core

FaultNext ==
    \/ Next
    \/ \E s \in scope.sockets, event \in MalformedEvents : Malformed(s, event)

FaultSpec == Init /\ [][FaultNext]_vars

\* ------------------------------------------------------------------------
\* The client's peer table under load: the session's id sorts after every
\* remote id and the local stream has no tracks, so the client never offers.
\* Remote users are interchangeable here: the one to join is the first the
\* client holds nothing about, the one to leave is the newest peer, and the
\* local stream is set while no peer is connected.
\* ------------------------------------------------------------------------
NextJoiner ==
    LET fresh == {u \in CapUsers :
                     /\ ~HasMember(client.connectionCreationTime, u)
                     /\ ~PendingHas(client, u)}
    IN  {u \in fresh : \A v \in fresh : IdRank(u) <= IdRank(v)}

NewestPeer ==
    IF Len(client.peerConnections) = 0 THEN {}
    ELSE {client.peerConnections[Len(client.peerConnections)].userId}

CapInit ==
    /\ ServerInit
    /\ scope.rooms = {"r1"}
    /\ client = NewClient("zz")
    /\ pair = NoPair

CapNext ==
    \/ \E u \in NextJoiner : UserJoined(u)
    \/ \E u \in NewestPeer : UserLeft(u)
    \/ (Len(client.peerConnections) = 0 /\ SetLocalStream("empty"))
    \/ CloseAllConnections
    \/ Tick

CapSpec == CapInit /\ [][CapNext]_vars

\* ------------------------------------------------------------------------
\* Negotiation with one remote user, seen from the polite and from the
\* impolite side, on an engine with and without implicit rollback.  The
\* server announces a user the client has no connection to, and the remote
\* side sends descriptions only.
\* ------------------------------------------------------------------------
NegInit ==
    /\ ServerInit
    /\ scope.rooms = {"r1"}
    /\ \E id \in {"u1", "u3"}, b \in BOOLEAN :
          client = [NewClient(id) EXCEPT !.implicitRollback = b]
    /\ pair = NoPair

NegNext ==
    \/ SetLocalStream("media")
    \/ \E i \in 1..MaxTasks : PauseOver(i)
    \/ \E u \in NegUsers : ~HasMember(client.peerConnections, u) /\ UserJoined(u)
    \/ \E u \in NegUsers : UserLeft(u)
    \/ \E u \in NegUsers, signal \in Descriptions : IncomingSignal(u, signal)
    \/ \E c \in ConnIds : NegotiationNeeded(c)
    \/ \E i \in 1..MaxTimers : NegotiationTimer(i)
    \/ \E i \in 1..MaxTimers : ReconnectTimer(i)
    \/ \E c \in ConnIds : IceFailed(c)
    \/ \E i \in 1..MaxTasks : OperationSettled(i)

NegSpec == NegInit /\ [][NegNext]_vars

\* ------------------------------------------------------------------------
\* Two browsers in one room: u1 is in the room, u2 joins it.  The server
\* tells u1 'userJoined' and u2 'existing-participants', and relays every
\* signal of the one to the other, in the order in which they were sent.
\* ------------------------------------------------------------------------
GlareIds == {"u1", "u2"}

Other(p) == IF p = "u1" THEN "u2" ELSE "u1"

SocketOf(p) == IF p = "u1" THEN "s1" ELSE "s2"

\* socket.on('signal') of the server: what the target's socket is sent
Relayed(out) ==
    [i \in 1..Len(out) |->
        [event |-> "signal", from |-> out[i].from, signal |-> out[i].signal]]

HasOffer(events) ==
    \E i \in 1..Len(events) :
        events[i].event = "signal" /\ events[i].signal.type = "offer"

RemoteApplied(w) ==
    {w.pcs[c].lastRemote : c \in DOMAIN w.pcs} \ {NoDescription}

PeerBegin(p) == [pair.ends[p] EXCEPT !.out = << >>, !.resolved = << >>, !.repaid = {},
                                     !.lapsed = {}]

\* the state a handler of browser p leaves behind; taken tells whether the
\* handler was called with the oldest event on its way to p
PeerStep(p, w, taken) ==
    LET left == IF taken THEN Tail(pair.wire[p]) ELSE pair.wire[p]
    IN  /\ w.ok
        /\ Len(pair.wire[Other(p)]) + Len(w.out) <= MaxWire
        /\ pair' = [pair EXCEPT
                       !.ends[p] = Collect(w),
                       !.wire = [q \in GlareIds |->
                                    IF q = p THEN left
                                    ELSE pair.wire[q] \o Relayed(w.out)],
                       !.glare = @ \/ (HasOffer(Relayed(w.out)) /\ HasOffer(left)),
                       !.applied[p] = @ \cup RemoteApplied(w)]
        /\ UNCHANGED <<srvVars, client>>

PeerUserJoined(p) ==
    /\ pair.wire[p] # << >>
    /\ Head(pair.wire[p]).event = "userJoined"
    /\ PeerStep(p, OnUserJoined(PeerBegin(p), Head(pair.wire[p]).userId), TRUE)

PeerExistingParticipants(p) ==
    /\ pair.wire[p] # << >>
    /\ Head(pair.wire[p]).event = "existing-participants"
    /\ PeerStep(p, OnExistingParticipants(PeerBegin(p), SocketOf(p),
                                          Head(pair.wire[p]).participants), TRUE)

PeerSignal(p) ==
    /\ pair.wire[p] # << >>
    /\ Head(pair.wire[p]).event = "signal"
    /\ PeerStep(p, OnSignal(PeerBegin(p), Head(pair.wire[p]).from,
                            Head(pair.wire[p]).signal), TRUE)

PeerNegotiationNeeded(p, c) ==
    LET w == pair.ends[p]
    IN  /\ c \in DOMAIN w.pcs
        /\ ~w.pcs[c].closed
        /\ w.pcs[c].negotiationNeeded
        /\ w.pcs[c].signalingState = "stable"
        /\ \A i \in 1..Len(w.tasks) : w.tasks[i].conn # c
        /\ PeerStep(p, OnNegotiationNeeded(PeerBegin(p), c), FALSE)

PeerNegotiationTimer(p, i) ==
    LET w == pair.ends[p]
    IN  /\ i \in 1..Len(w.timers)
        /\ w.timers[i].kind = "negotiation"
        /\ PeerStep(p, OnNegotiationTimer([PeerBegin(p) EXCEPT !.timers = RemoveAt(@, i)],
                                          w.timers[i]), FALSE)

PeerOperationSettled(p, i) ==
    LET w == pair.ends[p]
    IN  /\ i \in 1..Len(w.tasks)
        /\ w.tasks[i].pc # "pause"
        /\ \A j \in 1..(i - 1) : w.tasks[j].conn # w.tasks[i].conn
        /\ PeerStep(p, OnSettled([PeerBegin(p) EXCEPT !.tasks = RemoveAt(@, i)],
                                 w.tasks[i]), FALSE)

\* both browsers have their camera; the server has handled u2's join-room
GlareInit ==
    /\ ServerInit
    /\ scope.rooms = {"r1"}
    /\ client = NewClient("zz")
    /\ \E b1 \in BOOLEAN, b2 \in BOOLEAN :
          pair = [ends |-> [p \in GlareIds |->
                              OnSetLocalStream(
                                  [NewClient(p) EXCEPT
                                      !.implicitRollback = IF p = "u1" THEN b1 ELSE b2],
                                  "media")],
                  wire |-> [p \in GlareIds |->
                              IF p = "u1"
                              THEN << [event |-> "userJoined", userId |-> "u2"] >>
                              ELSE << [event |-> "existing-participants",
                                       participants |->
                                           << [userId |-> "u1", socketId |-> "s1"],
                                              [userId |-> "u2", socketId |-> "s2"] >>] >>],
                  glare |-> FALSE,
                  applied |-> [p \in GlareIds |-> {}]]

GlareNext ==
    \/ \E p \in GlareIds : PeerUserJoined(p)
    \/ \E p \in GlareIds : PeerExistingParticipants(p)
    \/ \E p \in GlareIds : PeerSignal(p)
    \/ \E p \in GlareIds, c \in ConnIds : PeerNegotiationNeeded(p, c)
    \/ \E p \in GlareIds, i \in 1..MaxTimers : PeerNegotiationTimer(p, i)
    \/ \E p \in GlareIds, i \in 1..MaxTasks : PeerOperationSettled(p, i)

GlareSpec == GlareInit /\ [][GlareNext]_vars

\* The event loop of a browser runs every callback that is ready: an event
\* that arrived is handled, an operation of the engine settles, a timer that
\* was set fires.
GlareFairness ==
    \A p \in GlareIds :
        /\ WF_vars(PeerUserJoined(p))
        /\ WF_vars(PeerExistingParticipants(p))
        /\ WF_vars(PeerSignal(p))
        /\ WF_vars(\E c \in ConnIds : PeerNegotiationNeeded(p, c))
        /\ WF_vars(\E i \in 1..MaxTimers : PeerNegotiationTimer(p, i))
        /\ WF_vars(\E i \in 1..MaxTasks : PeerOperationSettled(p, i))

GlareLiveSpec == GlareSpec /\ GlareFairness

\* ------------------------------------------------------------------------
\* ICE candidates of one remote user: the browser opens the room before its
\* camera is ready, the remote user's candidates and descriptions arrive.
\* ------------------------------------------------------------------------
\* the signal handler is about to run without a remote description for u
BeforeRemoteDescription(w, u) ==
    \/ ~HasMember(w.peerConnections, u)
    \/ ~RemoteDescription(w.pcs[PeerOf(w, u)])

\* a candidate of u arrives; the remote side sends each candidate once.
\* early lists the candidates that arrived before a remote description.
IceCandidate(u, candidate) ==
    /\ \A i \in 1..Len(client.early) : client.early[i] # candidate
    /\ \A c \in DOMAIN client.pcs :
          \A i \in 1..Len(client.pcs[c].candidates) :
              client.pcs[c].candidates[i] # candidate
    /\ \A i \in 1..Len(client.tasks) :
          client.tasks[i].pc = "addIceCandidate" =>
              \A j \in 1..Len(client.tasks[i].queue) :
                  client.tasks[i].queue[j] # candidate
    /\ Step([OnSignal(Begin, u, candidate) EXCEPT
                !.early = IF BeforeRemoteDescription(client, u)
                          THEN Append(@, candidate) ELSE @])
    /\ UNCHANGED <<srvVars, pair>>

IceInit ==
    /\ ServerInit
    /\ scope.rooms = {"r1"}
    /\ \E id \in {"u1", "u3"}, b \in BOOLEAN :
          client = [NewClient(id) EXCEPT !.implicitRollback = b]
    /\ pair = NoPair

IceNext ==
    \/ (client.localStream = "null" /\ SetLocalStream("media"))
    \/ \E u \in NegUsers, candidate \in Candidates : IceCandidate(u, candidate)
    \/ \E u \in NegUsers, signal \in Descriptions : IncomingSignal(u, signal)
    \/ \E c \in ConnIds : NegotiationNeeded(c)
    \/ \E i \in 1..MaxTimers : NegotiationTimer(i)
    \/ \E i \in 1..MaxTasks : OperationSettled(i)

IceSpec == IceInit /\ [][IceNext]_vars

\* the same browser when the remote user also sends a candidate that the
\* engine rejects
BadIceNext ==
    \/ (client.localStream = "null" /\ SetLocalStream("media"))
    \/ \E u \in NegUsers, candidate \in Candidates \cup {BadCandidate} :
          IceCandidate(u, candidate)
    \/ \E u \in NegUsers, signal \in Descriptions : IncomingSignal(u, signal)
    \/ \E i \in 1..MaxTasks : OperationSettled(i)

BadIceSpec == IceInit /\ [][BadIceNext]_vars

\* the same browser when the remote user may leave and the room may be closed
DropNext ==
    \/ (client.localStream = "null" /\ SetLocalStream("media"))
    \/ \E u \in NegUsers, candidate \in Candidates : IceCandidate(u, candidate)
    \/ \E u \in NegUsers, signal \in Descriptions : IncomingSignal(u, signal)
    \/ \E i \in 1..MaxTasks : OperationSettled(i)
    \/ \E u \in NegUsers : UserLeft(u)
    \/ CloseAllConnections

DropSpec == IceInit /\ [][DropNext]_vars

\* ------------------------------------------------------------------------
\* The transports of the connections: the browser has its camera, a remote
\* user joins, answers, leaves; the engine reports connections connected,
\* disconnected and failed.
\* ------------------------------------------------------------------------
ConnNext ==
    \/ (client.localStream = "null" /\ SetLocalStream("media"))
    \/ \E u \in NegUsers : ~HasMember(client.peerConnections, u) /\ UserJoined(u)
    \/ \E u \in NegUsers : UserLeft(u)
    \/ \E u \in NegUsers, signal \in Descriptions : IncomingSignal(u, signal)
    \/ \E i \in 1..MaxTasks : OperationSettled(i)
    \/ \E c \in ConnIds : ConnectionConnected(c)
    \/ \E c \in ConnIds : ConnectionDisconnected(c)
    \/ \E c \in ConnIds : ConnectionFailed(c)
    \/ \E i \in 1..MaxTimers : GraceTimer(i)
    \/ \E i \in 1..MaxTimers : ReconnectTimer(i)

ConnSpec == NegInit /\ [][ConnNext]_vars

\* a handler that ends in w is a step: it stays within the bounds and
\* leaves the browser changed
Fires(w) == w.ok /\ Collect(w) # client

\* ENABLED <<\E i \in 1..MaxTimers : ReconnectTimer(i)>>_vars
ReconnectReady ==
    \E i \in 1..Len(client.timers) :
        /\ client.timers[i].kind = "reconnect"
        /\ Fires(OnReconnectTimer([Begin EXCEPT !.timers = RemoveAt(@, i)],
                                  client.timers[i]))

\* ENABLED <<\E i \in 1..MaxTasks : OperationSettled(i)>>_vars
SettleReady ==
    \E i \in 1..Len(client.tasks) :
        /\ client.tasks[i].pc # "pause"
        /\ \A j \in 1..(i - 1) : client.tasks[j].conn # client.tasks[i].conn
        /\ Fires(OnSettled([Begin EXCEPT !.tasks = RemoveAt(@, i)], client.tasks[i]))

\* The event loop runs every callback that is ready.  A timer that was set
\* fires whatever else the browser does: SF_vars(\E i : ReconnectTimer(i)),
\* strong because the firing is no step while the task list is at its
\* bound.  An operation of the engine settles:
\* WF_vars(\E i : OperationSettled(i)).  Both are written out with ENABLED
\* as the state predicates above.
ConnFairness ==
    /\ \/ <>[](~ReconnectReady)
       \/ []<><<\E i \in 1..MaxTimers : ReconnectTimer(i)>>_vars
    /\ \/ []<>(~SettleReady)
       \/ []<><<\E i \in 1..MaxTasks : OperationSettled(i)>>_vars

ConnLiveSpec == ConnSpec /\ ConnFairness
\* ------------------------------------------------------------------------
\* The remote stream: the browser has its camera, the remote user sends
\* descriptions, and its tracks arrive.
\* ------------------------------------------------------------------------
TrackNext ==
    \/ (client.localStream = "null" /\ SetLocalStream("media"))
    \/ \E u \in NegUsers, signal \in MediaDescriptions : IncomingSignal(u, signal)
    \/ \E i \in 1..MaxTasks : OperationSettled(i)
    \/ \E c \in ConnIds, shape \in TrackShapes : Track(c, shape)

TrackSpec == NegInit /\ [][TrackNext]_vars

\* ------------------------------------------------------------------------
\* Duplicate login: the browser of u1 is on socket s1, socket s2 joins and
\* leaves room r1 as u1 or as u2, and the browser handles the server's events
\* for s1 in the order in which they were emitted.  The camera starts once.
\* ------------------------------------------------------------------------
DupSocket == "s1"
DupSockets == {"s1", "s2"}
DupUser == "u1"

\* socket.on('userJoined') with its test of the socket id
OnUserJoinedOn(w, socketId, note) ==
    IF note.socketId = socketId THEN w
    ELSE [OnUserJoined(w, note.userId) EXCEPT !.gone = @ \ {note.userId}]

\* socket.on('userRejoined')
OnUserRejoined(w, socketId, note) ==
    IF note.socketId = socketId THEN w
    ELSE LET w1 == [RemovePeerConnection(w, note.userId) EXCEPT
                       !.gone = @ \ {note.userId}]
         IN  IF w1.localStream # "null"
             THEN InitiateCall(w1, note.userId,
                               [caller |-> "userRejoined", dummy |-> FALSE,
                                rest |-> << >>])
             ELSE PendingAdd(w1, note.userId)

\* the emits of the last handler that socket s1 has still to receive
Arriving == {k \in 1..Len(sent) : DupSocket \in sent[k].to}

\* the listeners of WebRTCService on the socket; participant-count and
\* receiveMessage have none there
OnEvent(w, e) ==
    CASE e.event = "userJoined" -> OnUserJoinedOn(w, DupSocket, e.data)
      [] e.event = "userRejoined" -> OnUserRejoined(w, DupSocket, e.data)
      [] e.event = "userLeft" ->
            [OnUserLeft(w, e.data.userId) EXCEPT !.gone = @ \cup {e.data.userId},
                                                 !.owed = @ \ {e.data.userId}]
      [] e.event = "existing-participants" ->
            OnExistingParticipants(w, DupSocket, e.data)
      [] OTHER -> w

Receive ==
    /\ Arriving # {}
    /\ LET k == CHOOSE k \in Arriving : \A j \in Arriving : k <= j
       IN  /\ Step(OnEvent(Begin, sent[k]))
           /\ sent' = [sent EXCEPT ![k].to = @ \ {DupSocket}]
    /\ UNCHANGED <<scope, rooms, userSocketMap, groups, connected, ev, pre, pair>>

\* the user ids a socket joins with: s1 is the browser of u1
JoinsAs(s) == IF s = DupSocket THEN {DupUser} ELSE Users

DupInit ==
    /\ ServerInit
    /\ scope.rooms = {"r1"}
    /\ client = NewClient(DupUser)
    /\ pair = NoPair

DupNext ==
    \/ Receive
    \/ Arriving = {} /\ \E s \in DupSockets : Connection(s)
    \/ Arriving = {} /\ \E s \in DupSockets : \E u \in JoinsAs(s) :
          JoinRoom(s, "r1", u, NicknameOf[u])
    \/ Arriving = {} /\ \E s \in DupSockets \ {DupSocket}, u \in Users :
          LeaveRoom(s, "r1", u)
    \/ Arriving = {} /\ \E s \in DupSockets \ {DupSocket} : Disconnect(s)
    \/ client.localStream = "null" /\ SetLocalStream("media")
    \/ \E i \in 1..MaxTasks : PauseOver(i)
    \/ \E i \in 1..MaxTasks : OperationSettled(i)

DupSpec == DupInit /\ [][DupNext]_vars

\* ------------------------------------------------------------------------
\* The camera restarts while a remote user joins and leaves.  The remote
\* side sends nothing: after a userLeft only a userJoined brings the user
\* back.
\* ------------------------------------------------------------------------
SwapNext ==
    \/ SetLocalStream("media")
    \/ \E i \in 1..MaxTasks : PauseOver(i)
    \/ \E u \in NegUsers : ~HasMember(client.peerConnections, u) /\ UserJoined(u)
    \/ \E u \in NegUsers : UserLeft(u)
    \/ \E c \in ConnIds : NegotiationNeeded(c)
    \/ \E i \in 1..MaxTasks : OperationSettled(i)

SwapSpec == NegInit /\ [][SwapNext]_vars

\* ------------------------------------------------------------------------
\* Properties of the server
\* ------------------------------------------------------------------------
\* the emits of the last handler that reached socket t
Deliveries(t) == {k \in 1..Len(sent) : t \in sent[k].to}

DeliveriesOf(event, t) == {k \in Deliveries(t) : sent[k].event = event}

\* C1: after any sequence of join-room, leave-room and disconnect events the
\* registry holds no room with zero members.
NoEmptyRoom == \A i \in 1..Len(rooms) : Len(rooms[i].members) > 0

\* a leave-room or a disconnect has just removed the last member of a room
LastMemberGone ==
    /\ ev.op \in {"leave-room", "disconnect"}
    /\ Len(rooms) < Len(pre.rooms)

\* C2: every key of userSocketMap is a member of at least one room.
IndexedUsersAreMembers == \A u \in DOMAIN userSocketMap : IsValidUser(rooms, u)

\* C3: every member entry (u, s) of every room has an index entry for u, and
\* the index maps u to the socket id s stored in that entry.
MembersAreIndexed ==
    \A i \in 1..Len(rooms) : \A j \in 1..Len(rooms[i].members) :
        LET m == rooms[i].members[j]
        IN  /\ m.userId \in DOMAIN userSocketMap
            /\ userSocketMap[m.userId] = m.socketId

\* the last event was a join-room(r, u) on a socket other than the one the
\* entry of u in r was bound to
RejoinOnNewSocket ==
    /\ ev.op = "join-room"
    /\ IsRejoin(pre.rooms, ev.roomId, ev.userId)
    /\ GetMember(GetRoom(pre.rooms, ev.roomId), ev.userId).socketId # ev.socket

\* C4: on such a rejoin each remaining member of r receives exactly one
\* userRejoined {u, s2, nickname} and no userJoined, r afterwards holds exactly
\* one entry for u, bound to s2, and the participant count of r is unchanged.
RejoinNotifiesRemaining ==
    RejoinOnNewSocket =>
        LET old == GetRoom(pre.rooms, ev.roomId)
            new == GetRoom(rooms, ev.roomId)
            note == [userId |-> ev.userId, socketId |-> ev.socket,
                     nickname |-> ev.nickname]
        IN  /\ \A j \in 1..Len(old) :
                  old[j].userId # ev.userId =>
                      /\ Cardinality(DeliveriesOf("userRejoined", old[j].socketId)) = 1
                      /\ \A k \in DeliveriesOf("userRejoined", old[j].socketId) :
                            sent[k].data = note
                      /\ DeliveriesOf("userJoined", old[j].socketId) = {}
            /\ Cardinality({j \in 1..Len(new) : new[j].userId = ev.userId}) = 1
            /\ GetMember(new, ev.userId).socketId = ev.socket
            /\ Len(new) = Len(old)

\* the (room, user) pairs whose member entry is bound to socket s
RECURSIVE PinnedIn(_, _, _)
PinnedIn(r, members, s) ==
    IF members = << >> THEN << >>
    ELSE (IF Head(members).socketId = s
          THEN << [roomId |-> r, userId |-> Head(members).userId] >>
          ELSE << >>) \o PinnedIn(r, Tail(members), s)

RECURSIVE Pinned(_, _)
Pinned(rs, s) ==
    IF rs = << >> THEN << >>
    ELSE PinnedIn(Head(rs).roomId, Head(rs).members, s) \o Pinned(Tail(rs), s)

\* the registry after socket s has issued leave-room for each pair of todo
RECURSIVE LeaveEach(_, _, _)
LeaveEach(reg, s, todo) ==
    IF todo = << >> THEN reg
    ELSE LeaveEach([rooms |-> LeaveRooms(reg.rooms, Head(todo).roomId,
                                         Head(todo).userId),
                    userSocketMap |-> LeaveIndex(reg.userSocketMap, s)],
                   s, Tail(todo))

\* C5: for every reachable registry and every socket s, the registry after
\* disconnect(s) equals the registry after s issues leave-room(r, u) for every
\* (r, u) whose member entry is bound to s.
DisconnectIsLeaveOfPinned ==
    \A s \in connected :
        [rooms |-> DisconnectRooms(rooms, s, LeaveAll(groups, s)),
         userSocketMap |-> DisconnectIndex(userSocketMap, s)]
        = LeaveEach([rooms |-> rooms, userSocketMap |-> userSocketMap], s,
                    Pinned(rooms, s))

\* C6: leave-room(r, u) for a pair that does not exist changes neither rooms,
\* index nor delivery groups and delivers no userLeft and no participant-count.
LeaveOfMissingPairIsNoOp ==
    (ev.op = "leave-room" /\ ~IsRejoin(pre.rooms, ev.roomId, ev.userId)) =>
        /\ rooms = pre.rooms
        /\ userSocketMap = pre.userSocketMap
        /\ groups = pre.groups
        /\ \A t \in Sockets :
              /\ DeliveriesOf("userLeft", t) = {}
              /\ DeliveriesOf("participant-count", t) = {}

\* C7: a signal {to, from, signal} is delivered exactly once, unchanged, to the
\* socket index[to] and to no other socket when the index contains `to`,
\* whether or not `from` is in a room; it is delivered to nobody otherwise;
\* rooms and index are unchanged either way.
SignalForwardedOnce ==
    ev.op = "signal" =>
        /\ rooms = pre.rooms
        /\ userSocketMap = pre.userSocketMap
        /\ \A t \in Sockets :
              Cardinality(Deliveries(t)) =
                  IF ev.to \in DOMAIN pre.userSocketMap
                     /\ t = pre.userSocketMap[ev.to]
                  THEN 1 ELSE 0
        /\ \A t \in Sockets : \A k \in Deliveries(t) :
              /\ sent[k].event = "signal"
              /\ sent[k].data = [from |-> ev.from, signal |-> ev.signal]

\* a signal from a user who is in no room has reached its target
SignalFromStrangerForwarded ==
    /\ ev.op = "signal"
    /\ ev.to \in DOMAIN userSocketMap
    /\ ~IsValidUser(rooms, ev.from)
    /\ Deliveries(userSocketMap[ev.to]) # {}

\* C8: a chat-message sent by socket s for room r is delivered exactly once,
\* with identical id, senderId, senderNickname, content and timestamp, to every
\* socket of r's delivery group other than s, and never to s.
ChatRelayedToOthers ==
    ev.op = "chat-message" =>
        /\ \A t \in Sockets :
              Cardinality(Deliveries(t)) =
                  IF t \in pre.groups[ev.roomId] /\ t # ev.socket THEN 1 ELSE 0
        /\ \A t \in Sockets : \A k \in Deliveries(t) :
              /\ sent[k].event = "receiveMessage"
              /\ sent[k].data.id = ev.body.id
              /\ sent[k].data.senderId = ev.body.senderId
              /\ sent[k].data.senderNickname = ev.body.senderNickname
              /\ sent[k].data.content = ev.body.content
              /\ sent[k].data.timestamp = ev.body.timestamp
              /\ DOMAIN sent[k].data =
                     {"id", "senderId", "senderNickname", "content", "timestamp"}

\* a member of a delivery group that holds another socket has sent a message
ChatSentInSharedRoom ==
    /\ ev.op = "chat-message"
    /\ ev.socket \in pre.groups[ev.roomId]
    /\ pre.groups[ev.roomId] \ {ev.socket} # {}

\* ------------------------------------------------------------------------
\* Properties of the client
\* ------------------------------------------------------------------------
\* C9: in every reachable client state, also after closeAllConnections and
\* new connections, peerConnections holds at most MAX_PEER_CONNECTIONS entries.
PeerTableBounded == Len(client.peerConnections) <= MAX_PEER_CONNECTIONS

\* C10: no createOffer is started on a connection while another createOffer
\* on that connection is still in flight, whichever of initiateCall, the
\* negotiationneeded listener, the impolite collision path and restartIce
\* starts it.
OneCreateOfferInFlight ==
    \A i, j \in 1..Len(client.tasks) :
        /\ client.tasks[i].pc = "createOffer"
        /\ client.tasks[j].pc = "createOffer"
        /\ client.tasks[i].conn = client.tasks[j].conn
        => i = j

\* C11: whichever path makes the offer (initiateCall, the negotiationneeded
\* listener, the impolite collision path, restartIce), the connection is in
\* signaling state stable at the moment setLocalDescription(offer) is called.
OfferSetInStableOnly ==
    \A i \in 1..Len(client.tasks) :
        /\ client.tasks[i].kind \in {"initiateCall", "negotiation", "collision",
                                     "restartIce"}
        /\ client.tasks[i].pc = "setLocalDescription"
        => client.tasks[i].at = "stable"


\* ------------------------------------------------------------------------
\* Glare
\* ------------------------------------------------------------------------
\* nothing is on its way to either browser and neither has an operation, a
\* timer or a negotiationneeded event pending
Quiet ==
    \A p \in GlareIds :
        /\ pair.wire[p] = << >>
        /\ pair.ends[p].tasks = << >>
        /\ pair.ends[p].timers = << >>
        /\ \A c \in DOMAIN pair.ends[p].pcs :
              ~(pair.ends[p].pcs[c].negotiationNeeded
                /\ pair.ends[p].pcs[c].signalingState = "stable")

\* the connection that browser p has in its table for the other browser
PeerPc(p) == pair.ends[p].pcs[PeerOf(pair.ends[p], Other(p))]

\* C12: when u1 (the polite side) and u2 each sent an offer before receiving
\* the other's, then once everything has settled both hold one offer/answer
\* pair: the offer is one that u2 sent, u1 holds it as its remote
\* description, the answer u2 holds is the one u1 made for that offer, and
\* u2 has never applied an offer of u1.
GlareResolvedForImpolite ==
    pair.ends # << >> /\ pair.glare /\ Quiet =>
        /\ \A p \in GlareIds : HasMember(pair.ends[p].peerConnections, Other(p))
        /\ PeerPc("u2").lastLocal.type = "offer"
        /\ PeerPc("u1").lastRemote = PeerPc("u2").lastLocal
        /\ PeerPc("u1").lastLocal.type = "answer"
        /\ PeerPc("u1").lastLocal.to = PeerPc("u2").lastLocal
        /\ PeerPc("u2").lastRemote = PeerPc("u1").lastLocal
        /\ \A d \in pair.applied["u2"] : d.type # "offer"

\* both browsers have a connection for each other in signaling state stable
BothStable ==
    \A p \in GlareIds :
        /\ HasMember(pair.ends[p].peerConnections, Other(p))
        /\ PeerPc(p).signalingState = "stable"

\* C13: after glare between u1 and u2, with every signal relayed in order
\* and no track added or removed, both browsers reach signaling state stable
\* and stay in it.
GlareEndsStable == pair.glare ~> []BothStable

\* glare has happened and everything has settled
GlareSettled == pair.ends # << >> /\ pair.glare /\ Quiet /\ BothStable

\* ------------------------------------------------------------------------
\* ICE candidates
\* ------------------------------------------------------------------------
\* the connection for u has a remote description and none of its operations
\* is pending
Drained(u) ==
    /\ HasMember(client.peerConnections, u)
    /\ RemoteDescription(client.pcs[PeerOf(client, u)])
    /\ \A i \in 1..Len(client.tasks) : client.tasks[i].user # u

\* C14: once the connection for a user has its remote description and
\* nothing is pending, the candidates of that user that arrived before the
\* remote description (also those that arrived while no local stream was
\* set) have each been added to the connection once, in the order of arrival.
EarlyCandidatesAdded ==
    \A u \in NegUsers :
        Drained(u) =>
            SelectSeq(client.pcs[PeerOf(client, u)].candidates,
                      LAMBDA x : \E i \in 1..Len(client.early) : client.early[i] = x)
                = client.early

\* ------------------------------------------------------------------------
\* Removal of a peer
\* ------------------------------------------------------------------------
\* C15: when a step takes a user out of peerConnections, then after the step
\* every connection made for that user is closed and pendingIce holds no
\* candidate of that user.
RemovalClosesAndDropsIce ==
    [][\A u \in NegUsers :
          HasMember(client.peerConnections, u) /\ ~HasMember(client'.peerConnections, u)
          => /\ \A c \in DOMAIN client'.pcs :
                   client'.pcs[c].user = u => client'.pcs[c].closed
             /\ u \in DOMAIN client'.pendingIce => client'.pendingIce[u] = << >>]_vars

\* C16: every connection that was created and is not closed is the one that
\* peerConnections holds for its user, so no user has two open connections.
OneOpenConnectionPerUser ==
    \A c \in DOMAIN client.pcs :
        ~client.pcs[c].closed =>
            /\ HasMember(client.peerConnections, client.pcs[c].user)
            /\ PeerOf(client, client.pcs[c].user) = c

\* a user's connection was closed while one of its operations was pending,
\* and a new connection for the same user is in the table
ConnectionReplaced ==
    \E c \in DOMAIN client.pcs, d \in DOMAIN client.pcs :
        /\ client.pcs[c].closed /\ ~client.pcs[d].closed
        /\ client.pcs[c].user = client.pcs[d].user
        /\ PeerOf(client, client.pcs[d].user) = d

\* ------------------------------------------------------------------------
\* makingOffer
\* ------------------------------------------------------------------------
\* an attempt to make an offer for u is between its createOffer and the end
\* of its setLocalDescription
OfferAttempt(w, u) ==
    \E i \in 1..Len(w.tasks) :
        /\ w.tasks[i].kind \in {"initiateCall", "negotiation", "collision"}
        /\ w.tasks[i].pc \in {"createOffer", "setLocalDescription"}
        /\ w.tasks[i].user = u

\* C17: makingOffer[u] is true only while an attempt to make an offer for u
\* is in progress.
MakingOfferOnlyDuringAttempt ==
    \A u \in NegUsers : IsMakingOffer(client, u) => OfferAttempt(client, u)

\* an attempt has ended with its offer set and sent, and the flag is false
OfferAttemptDone ==
    \E u \in NegUsers :
        /\ u \in DOMAIN client.makingOffer /\ ~client.makingOffer[u]
        /\ ~OfferAttempt(client, u)
        /\ \E i \in 1..Len(client.out) : client.out[i].signal.type = "offer"

\* ------------------------------------------------------------------------
\* Malformed events
\* ------------------------------------------------------------------------
\* C18: after an event with a malformed payload the server still serves the
\* socket that sent it, and rooms and userSocketMap are what they were.
MalformedIsDropped ==
    ev.op = "malformed" =>
        /\ ev.socket \in connected
        /\ rooms = pre.rooms
        /\ userSocketMap = pre.userSocketMap

\* ------------------------------------------------------------------------
\* request-participants
\* ------------------------------------------------------------------------
\* the user ids that rooms lists for room r, none when there is no such room
MemberIds(rs, r) ==
    IF HasRoom(rs, r)
    THEN {GetRoom(rs, r)[i].userId : i \in 1..Len(GetRoom(rs, r))}
    ELSE {}

\* C19: request-participants(r) is answered with one existing-participants
\* message, sent to the requesting socket alone, that lists each member of r
\* once and nobody else (nobody when r does not exist); rooms, userSocketMap
\* and the delivery groups stay as they were.
RequestAnsweredToCallerOnly ==
    ev.op = "request-participants" =>
        /\ Len(sent) = 1
        /\ sent[1].event = "existing-participants"
        /\ sent[1].to = {ev.socket}
        /\ {sent[1].data[i].userId : i \in 1..Len(sent[1].data)}
              = MemberIds(pre.rooms, ev.roomId)
        /\ Len(sent[1].data) = Cardinality(MemberIds(pre.rooms, ev.roomId))
        /\ rooms = pre.rooms
        /\ userSocketMap = pre.userSocketMap
        /\ groups = pre.groups

\* a socket asked for the members of a room that has two
RequestForFullRoom ==
    /\ ev.op = "request-participants"
    /\ Cardinality(MemberIds(rooms, ev.roomId)) = 2
    /\ Len(sent) = 1 /\ Len(sent[1].data) = 2

\* ------------------------------------------------------------------------
\* join-room that creates the room
\* ------------------------------------------------------------------------
\* C20: when join-room names a room that rooms did not hold, no socket is
\* sent userJoined or userRejoined by that handler, and the joining socket is
\* sent existing-participants with itself as the only entry and
\* participant-count 1.
RoomCreationIsSilent ==
    ev.op = "join-room" /\ ~HasRoom(pre.rooms, ev.roomId) =>
        /\ \A t \in Sockets :
              /\ DeliveriesOf("userJoined", t) = {}
              /\ DeliveriesOf("userRejoined", t) = {}
        /\ \E k \in DeliveriesOf("existing-participants", ev.socket) :
              /\ Len(sent[k].data) = 1
              /\ sent[k].data[1].userId = ev.userId
              /\ sent[k].data[1].socketId = ev.socket
        /\ \E k \in DeliveriesOf("participant-count", ev.socket) : sent[k].data = 1

\* ------------------------------------------------------------------------
\* Eviction at capacity
\* ------------------------------------------------------------------------
\* the creation time that connectionCreationTime records for user u
CreatedAt(w, u) == GetMember(w.connectionCreationTime, u).time

\* C21: when a step stores a connection for a new user while peerConnections
\* already holds MAX_PEER_CONNECTIONS entries, exactly one entry leaves the
\* table, no entry of the table was created before it, and its user is in
\* pendingConnections after the step.
EvictionTakesOldest ==
    [][(/\ Len(client.peerConnections) >= MAX_PEER_CONNECTIONS
        /\ \E u \in CapUsers : /\ ~HasMember(client.peerConnections, u)
                                /\ HasMember(client'.peerConnections, u))
       => \E v \in CapUsers :
             /\ HasMember(client.peerConnections, v)
             /\ ~HasMember(client'.peerConnections, v)
             /\ \A x \in CapUsers \ {v} :
                   HasMember(client.peerConnections, x)
                       => /\ HasMember(client'.peerConnections, x)
                          /\ CreatedAt(client, v) <= CreatedAt(client, x)
             /\ PendingHas(client', v)]_vars

\* ------------------------------------------------------------------------
\* setLocalStream
\* ------------------------------------------------------------------------
\* user u has an entry in peerConnections or is in pendingConnections
Tracked(w, u) == HasMember(w.peerConnections, u) \/ PendingHas(w, u)

\* the elements of a sequence
Range(seq) == {seq[i] : i \in 1..Len(seq)}

\* a call of setLocalStream that has not completed has still to call u, or
\* is waiting for its call of u to return
AwaitsRebuild(w, u) ==
    \E i \in 1..Len(w.tasks) :
        \/ w.tasks[i].pc = "pause" /\ u \in Range(w.tasks[i].rest)
        \/ /\ w.tasks[i].kind = "initiateCall"
           /\ w.tasks[i].k.caller \in {"swapPeers", "retryPending"}
           /\ u = w.tasks[i].user \/ u \in Range(w.tasks[i].k.rest)

SentForCurrentConnectionOnly ==
    \A i \in 1..Len(client.out) : client.out[i].current

\* a closed connection of user u still has a handler waiting at an await,
\* and in this step an offer or answer was sent to u
SentAfterReplacement ==
    \E i \in 1..Len(client.out), j \in 1..Len(client.tasks) :
        /\ client.tasks[j].user = client.out[i].to
        /\ client.pcs[client.tasks[j].conn].closed

\* C24: the handler of a failed connection leaves the user out of
\* peerConnections and in pendingConnections, and afterwards initiateCall is
\* called for the user unless a userLeft for the user is handled first.
FailedIsRemovedAndCalledAgain ==
    /\ [][\A c \in ConnIds :
             ConnectionFailed(c) =>
                 /\ ~HasMember(client'.peerConnections, client.pcs[c].user)
                 /\ PendingHas(client', client.pcs[c].user)]_vars
    /\ \A u \in NegUsers : (u \in client.owed) ~> (u \notin client.owed)

\* initiateCall is called for a user whose connection had failed
FailedCalledAgain == client.repaid # {}

\* the connection of grace timer t is the one the table holds for its user
\* and it is still disconnected or failed
StillDown(w, t) ==
    /\ HasMember(w.peerConnections, t.user)
    /\ PeerOf(w, t.user) = t.conn
    /\ w.pcs[t.conn].connectionState \in {"disconnected", "failed"}

\* what the browser holds for user u: its connection, whether it is pending
Held(w, u) ==
    [pc |-> IF HasMember(w.peerConnections, u) THEN w.pcs[PeerOf(w, u)]
            ELSE NewPc(u, FALSE),
     has |-> HasMember(w.peerConnections, u),
     pending |-> PendingHas(w, u),
     timers |-> Len(SelectSeq(w.timers, LAMBDA x : x.kind = "reconnect")),
     closed |-> Cardinality({c \in DOMAIN w.pcs : w.pcs[c].closed /\ 
                                \E j \in 1..Len(w.tasks) : w.tasks[j].conn = c})]

\* C25: when the grace timer of a disconnected connection fires, the peer is
\* removed only if that connection is still the one in peerConnections for
\* its user and is still disconnected or failed; otherwise the user's
\* connection, pendingConnections and the timers stay as they were.
GraceTimerChecksConnection ==
    [][\A i \in 1..MaxTimers :
          GraceTimer(i) =>
              IF StillDown(client, client.timers[i])
              THEN /\ ~HasMember(client'.peerConnections, client.timers[i].user)
                   /\ PendingHas(client', client.timers[i].user)
              ELSE Held(client', client.timers[i].user)
                       = Held(client, client.timers[i].user)]_vars

\* a grace timer fired and left in place a connection that had recovered or
\* had replaced the one that was disconnected
GraceTimerSpared ==
    \E u \in client.lapsed :
        /\ HasMember(client.peerConnections, u)
        /\ client.pcs[PeerOf(client, u)].connectionState \in {"new", "connected"}

ImpoliteIgnoresCollidingOffer ==
    [][\A u \in NegUsers, signal \in Descriptions :
          ( /\ signal.type = "offer"
            /\ client.localStream # "null"
            /\ ~IsPolite(client.myUserId, u)
            /\ PeerOf(client, u) # 0
            /\ \/ IsMakingOffer(client, u)
               \/ client.pcs[PeerOf(client, u)].signalingState # "stable"
            /\ IncomingSignal(u, signal) )
          => /\ client'.pcs = client.pcs
             /\ client'.out = << >>
             /\ IF IsMakingOffer(client, u)
                THEN client'.tasks = client.tasks
                ELSE /\ Len(client'.tasks) = Len(client.tasks) + 1
                     /\ SubSeq(client'.tasks, 1, Len(client.tasks)) = client.tasks
                     /\ client'.tasks[Len(client'.tasks)].kind = "collision"
                     /\ client'.tasks[Len(client'.tasks)].pc = "createOffer"]_vars

\* the impolite side has started an offer of its own on a colliding offer
\* while it still handles an earlier offer of the same user
ImpoliteCollided ==
    \E i \in 1..Len(client.tasks) :
        /\ client.tasks[i].kind = "collision"
        /\ ~IsPolite(client.myUserId, client.tasks[i].user)

\* C28: a candidate that cannot be added does not stop the negotiation: once
\* the connection for a user has a remote description and nothing is
\* pending, the remote offer has been answered and no candidate is left in
\* pendingIce.
CandidateFailureNotFatal ==
    \A u \in NegUsers :
        Drained(u) =>
            /\ client.pcs[PeerOf(client, u)].signalingState # "have-remote-offer"
            /\ u \notin DOMAIN client.pendingIce \/ client.pendingIce[u] = << >>

\* ------------------------------------------------------------------------
\* Remote tracks
\* ------------------------------------------------------------------------
\* the video tracks of a stream that were screen-share tracks on arrival
ScreenTracks(stream) ==
    {i \in 1..Len(stream) : stream[i].kind = "video" /\ IsScreen(stream[i])}

\* C29: the remote stream of a connection never holds more than one
\* screen-share track.
OneScreenTrackPerStream ==
    \A c \in DOMAIN client.pcs :
        Cardinality(ScreenTracks(client.pcs[c].remoteStream)) <= 1

\* C30: the arrival of an audio track or a camera video track takes no
\* screen-share track out of the remote stream.
CameraTrackKeepsScreenTrack ==
    [][\A c \in ConnIds, shape \in TrackShapes :
          (~IsScreen(shape) /\ Track(c, shape)) =>
              \A i \in ScreenTracks(client.pcs[c].remoteStream) :
                  \E j \in 1..Len(client'.pcs[c].remoteStream) :
                      client'.pcs[c].remoteStream[j] = client.pcs[c].remoteStream[i]]_vars

\* ------------------------------------------------------------------------
\* closeAllConnections
\* ------------------------------------------------------------------------
\* C31: after closeAllConnections peerConnections is empty and every
\* connection it held is closed, and a second call right after it leaves
\* the state of the client as it is.
CloseAllIsIdempotent ==
    [][CloseAllConnections =>
          /\ client'.peerConnections = << >>
          /\ \A c \in DOMAIN client'.pcs : client'.pcs[c].closed
          /\ Collect(CloseAll(client')) = client']_vars

\* closeAllConnections has closed a connection that was in the table while
\* one of its operations was pending
ClosedAllWhileBusy ==
    /\ client.peerConnections = << >>
    /\ client.localStream = "null"
    /\ client.connectionCreationTime # << >>
    /\ \E i \in 1..Len(client.tasks) : client.pcs[client.tasks[i].conn].closed

\* ------------------------------------------------------------------------
\* Rejoin, delivery groups, stale sockets
\* ------------------------------------------------------------------------
\* the place of user u in an ordered member list
PositionOf(members, u) == CHOOSE i \in 1..Len(members) : members[i].userId = u

\* C32: after a rejoin of u in r on a new socket, u has the position in the
\* member list of r, and in the existing-participants list that the rejoin
\* is answered with, that it had before.
RejoinKeepsPosition ==
    RejoinOnNewSocket =>
        /\ PositionOf(GetRoom(rooms, ev.roomId), ev.userId)
              = PositionOf(GetRoom(pre.rooms, ev.roomId), ev.userId)
        /\ \A k \in 1..Len(sent) :
              sent[k].event = "existing-participants" =>
                  PositionOf(sent[k].data, ev.userId)
                      = PositionOf(GetRoom(pre.rooms, ev.roomId), ev.userId)


\* the socket ids stored in the member entries of room r
MemberSockets(rs, r) ==
    IF HasRoom(rs, r)
    THEN {GetRoom(rs, r)[j].socketId : j \in 1..Len(GetRoom(rs, r))}
    ELSE {}

\* C33: in every reachable server state the delivery group of each room is
\* exactly the set of socket ids stored in the room's member entries.
GroupIsMemberSockets == \A r \in Rooms : groups[r] = MemberSockets(rooms, r)

\* the last event was a leave-room(r, u) on a socket other than the one the
\* entry of u in r was bound to
LeaveOnOtherSocket ==
    /\ ev.op = "leave-room"
    /\ IsRejoin(pre.rooms, ev.roomId, ev.userId)
    /\ GetMember(GetRoom(pre.rooms, ev.roomId), ev.userId).socketId # ev.socket

\* C34: a leave-room(r, u) processed on socket s removes the entry of u from r
\* only if the entry is bound to s: an entry bound to another socket (the one u
\* rejoined on) is still in r, bound to that socket, afterwards.
LeaveRemovesOwnEntryOnly ==
    LeaveOnOtherSocket =>
        /\ IsRejoin(rooms, ev.roomId, ev.userId)
        /\ GetMember(GetRoom(rooms, ev.roomId), ev.userId)
              = GetMember(GetRoom(pre.rooms, ev.roomId), ev.userId)

\* the last event was the disconnect of a socket that no entry of u is bound
\* to any more, u having rejoined r on the socket its entry and the index name
StaleSocketGone(r, u) ==
    /\ ev.op = "disconnect"
    /\ IsRejoin(pre.rooms, r, u)
    /\ GetMember(GetRoom(pre.rooms, r), u).socketId # ev.socket
    /\ u \in DOMAIN pre.userSocketMap
    /\ pre.userSocketMap[u] = GetMember(GetRoom(pre.rooms, r), u).socketId
    /\ \A i \in 1..Len(Pinned(pre.rooms, ev.socket)) :
          Pinned(pre.rooms, ev.socket)[i].userId # u

NoPeerForOwnId == ~HasMember(client.peerConnections, client.myUserId)

\* C37: once userLeft {u} has been handled and until something for u arrives
\* again (here a userJoined), the client holds no peer connection for u.
NoPeerForGoneUser ==
    \A u \in client.gone : ~HasMember(client.peerConnections, u)

\* C38: the stream that setLocalStream has installed stays the manager's local
\* stream as long as closeAllConnections is not called: no handler that lent
\* an empty stream to a call puts null in its place.
LocalStreamStaysSet ==
    [][client.localStream = "media" => client'.localStream = "media"]_vars

\* ------------------------------------------------------------------------
\* Continuations of a connection that was replaced
\* ------------------------------------------------------------------------
\* the handler that waits as task i belongs to a connection of its user that
\* peerConnections no longer holds: the table holds a newer one
Outlived(w, i) ==
    /\ w.tasks[i].conn # 0
    /\ HasMember(w.peerConnections, w.tasks[i].user)
    /\ PeerOf(w, w.tasks[i].user) # w.tasks[i].conn

\* an attempt to make an offer on the connection the table holds for u is
\* between its createOffer and the end of its setLocalDescription
CurrentOfferAttempt(w, u) ==
    \E j \in 1..Len(w.tasks) :
        /\ w.tasks[j].kind \in {"initiateCall", "negotiation", "collision"}
        /\ w.tasks[j].pc \in {"createOffer", "setLocalDescription"}
        /\ w.tasks[j].conn = PeerOf(w, u)

\* C39: a continuation of a connection of u that the table no longer holds
\* leaves the newer connection of u in the table and open, and leaves
\* makingOffer[u] set while an offer attempt of the newer connection is in
\* flight.
StaleContinuationSparesNewer ==
    [][\A i \in 1..MaxTasks :
          (/\ i <= Len(client.tasks)
           /\ Outlived(client, i)
           /\ OperationSettled(i))
              => LET u == client.tasks[i].user
                 IN  /\ HasMember(client'.peerConnections, u)
                     /\ ~client'.pcs[PeerOf(client', u)].closed
                     /\ (IsMakingOffer(client, u) /\ CurrentOfferAttempt(client, u))
                            => IsMakingOffer(client', u)]_vars

\* the user ids that are keys of a Map of the client
KeysOf(map) == {map[i].userId : i \in 1..Len(map)}

\* C40: connectionCreationTime has an entry for a user if and only if
\* peerConnections has one, also after closeAllConnections.
CreationTimesMatchPeerTable ==
    KeysOf(client.connectionCreationTime) = KeysOf(client.peerConnections)
====
